---- MODULE Spec2Model ----
(***************************************************************************)
(* Development-session orchestrator of open-lovable: the restart route,    *)
(* the generic framework-operations route and the error-cache routes, as   *)
(* state machines over the process-wide session state and the sandbox      *)
(* file system.                                                            *)
(*                                                                         *)
(* Every handler is an async function.  Between two awaits it runs without *)
(* interleaving (single-threaded event loop), so one action of the model   *)
(* is one synchronous segment: the code from one await's completion up to  *)
(* the next await (or the return).  A call that is answered before its     *)
(* first await is a single action.                                         *)
(***************************************************************************)
EXTENDS Integers, Sequences, FiniteSets, TLC

VARIABLES
    provider,              \* global.activeSandbox || global.activeSandboxProvider
    now,                   \* Date.now(), milliseconds
    lastDevRestartTime,    \* global.lastDevRestartTime (0: never set)
    devRestartInProgress,  \* global.devRestartInProgress
    lastOperationTime,     \* global.lastOperationTime[operation] (0: never set)
    operationInProgress,   \* global.operationInProgress[operation]
    detected,              \* framework id detectFramework yields for the sandbox's project
    errorCache,            \* /tmp/<framework>-errors.json in the sandbox, per framework
    devLog,                \* /tmp/<detected>-dev.log in the sandbox: its lines
    inv,                   \* the invocations in flight, one per call slot
    lastResp,              \* the response the last step returned to its caller, if any
    reported,              \* history: the last reportError call that completed, while
                           \* no other handler has changed the cache since
    lib                    \* a call of a function of src/lib: its arguments and,
                           \* once it has returned, its result

vars == <<provider, detected, now, lastDevRestartTime, devRestartInProgress,
          lastOperationTime, operationInProgress, errorCache, devLog, inv,
          lastResp, reported, lib>>

files == <<errorCache, devLog>>

session == <<lastDevRestartTime, devRestartInProgress,
             lastOperationTime, operationInProgress>>

----------------------------------------------------------------------------
(* Bounds of the model *)

MaxCalls == 2
MaxCallsBoth == 1
MaxTicks == 2
MaxTicksRestart == 5
TickMs == 2500
StartTime == 10000
MaxMsgLen == 2
MaxErrors == 2
MaxLogLines == 2

(* Program constants *)

RESTART_COOLDOWN_MS == 5000
OPERATION_COOLDOWN_MS == 3000
SettleDelayMs == 2000
WarmupDelayMs == 3000

Calls == 1..MaxCalls

Providers == {"none", "plain", "native"}

Frameworks == {"nextjs", "vite", "cra"}

(* What one provider.runCommand / provider.restartDevServer call can do:   *)
(* resolve with exit code 0, resolve with a non-zero exit code, reject     *)
(* with an Error, or reject with a value that has no .message (null or     *)
(* undefined: the provider is untyped, `any`).                             *)
CmdOutcomes == {"ok", "nonzero", "throwError", "throwNull"}

Throws(o) == o \in {"throwError", "throwNull"}

AllOps == {"install", "dev", "start", "build", "test", "lint", "clean",
           "kill", "stop", "status", "health", "logs", "unknown"}

(* Operation names the callers of the model send: one that changes the     *)
(* project and one that only reads, and with KeyInputs also a name the     *)
(* switch does not know; "" is a request body without an operation.        *)
OpInputs == {"build", "status"}
KeyInputs == OpInputs \cup {"unknown"}
NoOperation == ""

(* The slot of the caller in the specifications with one caller at a time. *)
Sequential == {1}

----------------------------------------------------------------------------
(* Plans: the awaits of a handler body, in program order *)

(* name: the command; tol: the await sits in its own try/catch that        *)
(* swallows a rejection; cap: what the code keeps of the outcome           *)
(* ("exit": result.exitCode, "healthy": result.healthy = (exitCode = 0),   *)
(* "none": nothing).                                                       *)
Cmd(name, tol, cap) == [t |-> "cmd", name |-> name, tol |-> tol, cap |-> cap, ms |-> 0]
Delay(ms) == [t |-> "delay", name |-> "delay", tol |-> TRUE, cap |-> "none", ms |-> ms]

(* Reading package.json and detectFramework (and detectPackageManager):    *)
(* every provider call in them is wrapped, no failure leaves them.         *)
Detect == Cmd("detect", TRUE, "none")

Repeat(e, n) == [i \in 1..n |-> e]

(* Variant: the cache file is reset after the dev server was started      *)
RestartPlan_ResetAfterStart(p) ==
    IF p = "native"
    THEN <<Detect, Cmd("restartDevServer", FALSE, "none")>>
    ELSE <<Detect>> \o Repeat(Cmd("kill", TRUE, "none"), 4)
         \o <<Delay(SettleDelayMs), Cmd("start", FALSE, "none"),
              Cmd("cacheReset", TRUE, "none"), Delay(WarmupDelayMs)>>

(* restart-dev-server POST, after the flag is set: detection, then the     *)
(* provider's own restart, or four kill commands (each in its own          *)
(* try/catch), the settle delay, the cache reset (try/catch), the start    *)
(* command (not caught locally) and the warm-up delay.                     *)
RestartPlan(p) ==
    IF p = "native"
    THEN <<Detect, Cmd("restartDevServer", FALSE, "none")>>
    ELSE <<Detect>> \o Repeat(Cmd("kill", TRUE, "none"), 4)
         \o <<Delay(SettleDelayMs), Cmd("cacheReset", TRUE, "none"),
              Cmd("start", FALSE, "none"), Delay(WarmupDelayMs)>>

(* getProcessKillCommands: four commands for a registered framework plus   *)
(* two generic ones.                                                       *)
NumKillCommands == 6

(* frameworkConfigs[fw].logFiles (getLogFilePaths, getLogTailCommand)      *)
LogFiles(fw) ==
    CASE fw = "nextjs" -> <<"/tmp/nextjs.log", "/tmp/next-dev.log", ".next/trace">>
      [] fw = "vite" -> <<"/tmp/vite.log", "/tmp/vite-dev.log">>
      [] fw = "cra" -> <<"/tmp/react-scripts.log">>
      [] OTHER -> <<"/tmp/dev.log">>

NumLogFiles(fw) == Len(LogFiles(fw))

(* framework-operations POST: the switch on the operation name.            *)
OperationPlan(op, fw) ==
    CASE op \in {"install", "build", "test", "lint", "clean"} ->
            <<Detect, Cmd(op, FALSE, "exit")>>
      [] op \in {"dev", "start"} ->
            <<Detect>> \o Repeat(Cmd("kill", TRUE, "none"), NumKillCommands)
            \o <<Delay(SettleDelayMs), Cmd("start", FALSE, "exit"),
                 Delay(WarmupDelayMs), Cmd("health", FALSE, "healthy")>>
      [] op \in {"kill", "stop"} ->
            <<Detect>> \o Repeat(Cmd("kill", TRUE, "none"), NumKillCommands)
      [] op \in {"status", "health"} ->
            <<Detect, Cmd("health", FALSE, "healthy"), Cmd("ps", FALSE, "none")>>
      [] op = "logs" ->
            <<Detect>> \o Repeat(Cmd("tail", TRUE, "none"), NumLogFiles(fw))
      [] OTHER -> <<Detect>>

----------------------------------------------------------------------------
(* Invocations and responses *)

NoText == <<>>

NoRequest == [error |-> NoText, file |-> NoText, line |-> 0]

(* req: the request body; stamp, errors, warnings, info, isDuplicate,      *)
(* cleared: the locals of the error-cache handlers; faults: some command of the     *)
(* invocation did not succeed.                                             *)
Idle == [kind |-> "idle", op |-> "none", pc |-> 0, wake |-> 0,
         cmds |-> <<>>, success |-> TRUE, exit |-> "none", healthy |-> "none",
         error |-> "none", req |-> NoRequest, stamp |-> 0, errors |-> <<>>,
         warnings |-> <<>>, info |-> <<>>, isDuplicate |-> FALSE,
         cleared |-> <<>>, faults |-> FALSE]

NoResp == [kind |-> "none", op |-> "none", status |-> 0, tag |-> "none",
           success |-> FALSE, exit |-> "none", healthy |-> "none",
           error |-> "none", remaining |-> 0, isDuplicate |-> FALSE,
           totalErrors |-> 0, clearedFiles |-> <<>>,
           errors |-> <<>>, warnings |-> <<>>, info |-> <<>>]

(* A response without result fields: status is the HTTP status, tag names  *)
(* the return statement that produced it.                                  *)
Reply(kind, op, status, tag, success, remaining) ==
    [kind |-> kind, op |-> op, status |-> status, tag |-> tag,
     success |-> success, exit |-> "none", healthy |-> "none",
     error |-> IF success THEN "none" ELSE tag, remaining |-> remaining,
     isDuplicate |-> FALSE, totalErrors |-> 0, clearedFiles |-> <<>>,
     errors |-> <<>>, warnings |-> <<>>, info |-> <<>>]

(* NextResponse.json(result) of framework-operations: status 200.          *)
ResultReply(r) ==
    [kind |-> "op", op |-> r.op, status |-> 200, tag |-> "result",
     success |-> r.success, exit |-> r.exit, healthy |-> r.healthy,
     error |-> r.error, remaining |-> 0, isDuplicate |-> FALSE, totalErrors |-> 0,
     clearedFiles |-> <<>>, errors |-> <<>>, warnings |-> <<>>, info |-> <<>>]

(* `if (!provider)`: the first check of every handler.                     *)
HasSandbox_Always(p) == TRUE

HasSandbox(p) == p # "none"

(* An empty cache document, and a file that does not exist.                *)
NoFile == [exists |-> FALSE, errors |-> <<>>, warnings |-> <<>>]
CacheDoc(errors, warnings) == [exists |-> TRUE, errors |-> errors, warnings |-> warnings]

NoReport == [req |-> NoRequest, isDuplicate |-> FALSE, totalErrors |-> 0,
             errors |-> <<>>, faults |-> TRUE, made |-> FALSE]

(* What a command that is not a read does to the files when it completes   *)
(* with outcome o: the restart route's cache reset writes an empty         *)
(* document (its text has no quote in it), and the start command redirects *)
(* the server's output with `>`, which truncates the dev log.              *)
SandboxEffect(name, o) ==
    /\ errorCache' = IF name = "cacheReset" /\ o = "ok"
                     THEN [errorCache EXCEPT ![detected] = CacheDoc(<<>>, <<>>)]
                     ELSE errorCache
    /\ devLog' = IF name = "start" /\ o = "ok" THEN <<>> ELSE devLog
    /\ reported' = IF name = "cacheReset" /\ o = "ok" THEN NoReport ELSE reported

InFlight(kind) == {c \in Calls : inv[c].kind = kind}
Running(op) == {c \in Calls : inv[c].kind = "op" /\ inv[c].op = op}

(* A new call takes the first free slot (slots only name invocations).     *)
FreeSlot(c) == inv[c].kind = "idle" /\ \A d \in Calls : d < c => inv[d].kind # "idle"

(* Variant: Math.floor instead of Math.ceil                                *)
CeilSeconds_Floor(ms) == ms \div 1000

(* Math.ceil(ms / 1000) for ms > 0 *)
CeilSeconds(ms) == (ms + 999) \div 1000

----------------------------------------------------------------------------
(* restart-dev-server: POST *)

(* Variants of the gates with one check left out.                          *)
RestartGate_NoFlagCheck(inProgress, last, t) ==
    IF last # 0 /\ (t - last) < RESTART_COOLDOWN_MS THEN "cooldown" ELSE "pass"

RestartGate_NoCooldown(inProgress, last, t) ==
    IF inProgress THEN "in-progress" ELSE "pass"

(* The two gates, lines 24-42: "in-progress", "cooldown" or "pass".        *)
RestartGate(inProgress, last, t) ==
    IF inProgress THEN "in-progress"
    ELSE IF last # 0 /\ (t - last) < RESTART_COOLDOWN_MS THEN "cooldown"
    ELSE "pass"

(* Lines 13-45: the synchronous head of the handler.                       *)
RestartSession(c) ==
    /\ FreeSlot(c)
    /\ UNCHANGED <<provider, lib, detected, now, lastOperationTime, operationInProgress,
                   lastDevRestartTime, files, reported>>
    /\ IF ~HasSandbox(provider)
       THEN /\ lastResp' = Reply("restart", "none", 400, "no-sandbox", FALSE, 0)
            /\ UNCHANGED <<devRestartInProgress, inv>>
       ELSE LET g == RestartGate(devRestartInProgress, lastDevRestartTime, now) IN
            CASE g = "in-progress" ->
                    /\ lastResp' = Reply("restart", "none", 200, "in-progress", TRUE, 0)
                    /\ UNCHANGED <<devRestartInProgress, inv>>
              [] g = "cooldown" ->
                    /\ lastResp' = Reply("restart", "none", 200, "cooldown", TRUE,
                          CeilSeconds(RESTART_COOLDOWN_MS - (now - lastDevRestartTime)))
                    /\ UNCHANGED <<devRestartInProgress, inv>>
              [] OTHER ->
                    /\ devRestartInProgress' = TRUE
                    /\ inv' = [inv EXCEPT ![c] =
                                  [Idle EXCEPT !.kind = "restart", !.pc = 1]]
                    /\ lastResp' = NoResp

(* Lines 134-144: the restart went through.                                *)
RestartDone(c) ==
    /\ lastDevRestartTime' = now
    /\ devRestartInProgress' = FALSE
    /\ lastResp' = Reply("restart", "none", 200, "restarted", TRUE, 0)
    /\ inv' = [inv EXCEPT ![c] = Idle]

(* A catch block that answers 500 and leaves the flag set.                 *)
RestartCatch_KeepsFlag(c, o) ==
    /\ lastResp' = Reply("restart", "none", 500, "error", FALSE, 0)
    /\ inv' = [inv EXCEPT ![c] = Idle]
    /\ UNCHANGED <<lastDevRestartTime, devRestartInProgress>>

(* Lines 146-156: the catch block.  With a thrown value that has no        *)
(* .message the catch block itself throws at line 154, after the flag was  *)
(* cleared at line 150, and the framework answers 500 on its own.          *)
RestartCatch(c, o) ==
    /\ devRestartInProgress' = FALSE
    /\ lastResp' = Reply("restart", "none", 500,
                         IF o = "throwNull" THEN "unhandled" ELSE "error", FALSE, 0)
    /\ inv' = [inv EXCEPT ![c] = Idle]
    /\ UNCHANGED lastDevRestartTime

(* The invocation moves on to plan element i+1.                            *)
Advance(r, plan) ==
    [r EXCEPT !.pc = r.pc + 1,
              !.wake = IF plan[r.pc + 1].t = "delay" THEN now + plan[r.pc + 1].ms ELSE 0]

(* One await of the restart body completes with outcome o, and the code    *)
(* runs on to the next await or to the end of the handler.                 *)
RestartStep(c, o) ==
    LET r == inv[c]
        plan == RestartPlan(provider)
        e == plan[r.pc]
        r2 == IF e.t = "cmd" THEN [r EXCEPT !.cmds = Append(r.cmds, e.name)] ELSE r
    IN  /\ r.kind = "restart"
        /\ e.t = "delay" => (now >= r.wake /\ o = "ok")
        /\ UNCHANGED <<provider, lib, detected, now, lastOperationTime, operationInProgress>>
        /\ SandboxEffect(e.name, o)
        /\ IF e.t = "cmd" /\ ~e.tol /\ Throws(o)
           THEN RestartCatch(c, o)
           ELSE IF r.pc = Len(plan)
                THEN RestartDone(c)
                ELSE /\ inv' = [inv EXCEPT ![c] = Advance(r2, plan)]
                     /\ lastResp' = NoResp
                     /\ UNCHANGED <<lastDevRestartTime, devRestartInProgress>>

----------------------------------------------------------------------------
(* The clock *)

Tick(maxTicks) ==
    /\ now + TickMs <= StartTime + maxTicks * TickMs
    /\ now' = now + TickMs
    /\ lastResp' = NoResp
    /\ UNCHANGED <<provider, lib, detected, session, files, inv, reported>>

----------------------------------------------------------------------------
(* framework-operations: POST *)

ReadOnlyOps == {"status", "health", "logs"}

(* A gate that forgets the cooldown.                                       *)
OperationGate_NoCooldown(op, force, inProgress, last, t) ==
    IF inProgress /\ ~force THEN "in-progress" ELSE "pass"

(* The two gates, lines 48-70: "in-progress", "cooldown" or "pass".  last  *)
(* is global.lastOperationTime[operation] || 0.                            *)
OperationGate(op, force, inProgress, last, t) ==
    IF inProgress /\ ~force THEN "in-progress"
    ELSE IF op \notin ReadOnlyOps /\ ~force /\ (t - last) < OPERATION_COOLDOWN_MS
         THEN "cooldown"
    ELSE "pass"

(* Lines 26-73: the synchronous head of the handler (request.json() of a   *)
(* well-formed body does not fail).                                        *)
RunOperation(c, op, force) ==
    /\ FreeSlot(c)
    /\ UNCHANGED <<provider, lib, detected, now, lastDevRestartTime, devRestartInProgress,
                   lastOperationTime, files, reported>>
    /\ IF ~HasSandbox(provider)
       THEN /\ lastResp' = Reply("op", op, 400, "no-sandbox", FALSE, 0)
            /\ UNCHANGED <<operationInProgress, inv>>
       ELSE IF op = NoOperation
       THEN /\ lastResp' = Reply("op", op, 400, "operation-required", FALSE, 0)
            /\ UNCHANGED <<operationInProgress, inv>>
       ELSE LET g == OperationGate(op, force, operationInProgress[op],
                                   lastOperationTime[op], now) IN
            CASE g = "in-progress" ->
                    /\ lastResp' = Reply("op", op, 200, "in-progress", TRUE, 0)
                    /\ UNCHANGED <<operationInProgress, inv>>
              [] g = "cooldown" ->
                    /\ lastResp' = Reply("op", op, 200, "cooldown", TRUE,
                          CeilSeconds(OPERATION_COOLDOWN_MS - (now - lastOperationTime[op])))
                    /\ UNCHANGED <<operationInProgress, inv>>
              [] OTHER ->
                    /\ operationInProgress' = [operationInProgress EXCEPT ![op] = TRUE]
                    /\ inv' = [inv EXCEPT ![c] =
                                  [Idle EXCEPT !.kind = "op", !.op = op, !.pc = 1]]
                    /\ lastResp' = NoResp

(* Line 304: the key whose flag the outer catch block clears.  The body    *)
(* was consumed at line 37, so reading it again rejects and the fallback   *)
(* { operation: 'unknown' } is what the catch block gets, whatever the     *)
(* operation of the request was.                                           *)
CaughtOperationKey(op) == "unknown"

(* Lines 300-310: the outer catch block.                                   *)
OperationOuterCatch(c, op) ==
    /\ operationInProgress' =
          [operationInProgress EXCEPT ![CaughtOperationKey(op)] = FALSE]
    /\ lastResp' = Reply("op", op, 500, "error", FALSE, 0)
    /\ inv' = [inv EXCEPT ![c] = Idle]
    /\ UNCHANGED lastOperationTime

(* A request whose body is not JSON: line 37 throws, before any gate.      *)
RunOperationMalformed(c) ==
    /\ FreeSlot(c)
    /\ UNCHANGED <<provider, lib, detected, now, lastDevRestartTime, devRestartInProgress,
                   files, reported>>
    /\ IF ~HasSandbox(provider)
       THEN /\ lastResp' = Reply("op", NoOperation, 400, "no-sandbox", FALSE, 0)
            /\ UNCHANGED <<operationInProgress, lastOperationTime, inv>>
       ELSE OperationOuterCatch(c, NoOperation)

(* Variant: as in the restart route, only a successful run records its     *)
(* time.                                                                   *)
OperationDone_TimeOnSuccess(c, r) ==
    /\ lastOperationTime' = IF r.success
                            THEN [lastOperationTime EXCEPT ![r.op] = now]
                            ELSE lastOperationTime
    /\ operationInProgress' = [operationInProgress EXCEPT ![r.op] = FALSE]
    /\ lastResp' = ResultReply(r)
    /\ inv' = [inv EXCEPT ![c] = Idle]

(* Lines 291-298: the end of the handler.                                  *)
OperationDone(c, r) ==
    /\ lastOperationTime' = [lastOperationTime EXCEPT ![r.op] = now]
    /\ operationInProgress' = [operationInProgress EXCEPT ![r.op] = FALSE]
    /\ lastResp' = ResultReply(r)
    /\ inv' = [inv EXCEPT ![c] = Idle]

(* What the switch keeps of a command that resolved with outcome o.        *)
Capture(r, e, o) ==
    CASE e.cap = "exit" ->
            [r EXCEPT !.exit = IF o = "ok" THEN "zero" ELSE "nonzero",
                      !.error = IF r.op \in {"install", "build", "test", "lint"}
                                THEN "stderr" ELSE r.error]
      [] e.cap = "healthy" ->
            [r EXCEPT !.healthy = IF o = "ok" THEN "yes" ELSE "no"]
      [] OTHER -> r

(* Lines 281-283: the default case of the switch.                          *)
SwitchDefault(r) ==
    IF r.op \in AllOps \ {"unknown"} THEN r
    ELSE [r EXCEPT !.success = FALSE, !.error = "unknown-operation"]

(* A catch block that reports the exception but leaves success = true.    *)
SwitchCatch_KeepsSuccess(r) == [r EXCEPT !.error = "exception"]

(* Lines 286-289: the catch block around the switch.                       *)
SwitchCatch(r) == [r EXCEPT !.success = FALSE, !.error = "exception"]

(* One await of the operation body completes with outcome o, and the code  *)
(* runs on to the next await or to the end of the handler.                 *)
OperationStep(c, o) ==
    LET r == inv[c]
        plan == OperationPlan(r.op, detected)
        e == plan[r.pc]
        r2 == IF e.t = "cmd" THEN [r EXCEPT !.cmds = Append(r.cmds, e.name)] ELSE r
    IN  /\ r.kind = "op"
        /\ e.t = "delay" => (now >= r.wake /\ o = "ok")
        /\ UNCHANGED <<provider, lib, detected, now, lastDevRestartTime, devRestartInProgress>>
        /\ SandboxEffect(e.name, o)
        /\ IF e.t = "cmd" /\ ~e.tol /\ Throws(o)
           THEN IF o = "throwNull"
                THEN OperationOuterCatch(c, r.op)
                ELSE OperationDone(c, SwitchCatch(r2))
           ELSE LET r3 == IF e.t = "cmd" /\ ~Throws(o) THEN Capture(r2, e, o) ELSE r2 IN
                IF r.pc = Len(plan)
                THEN OperationDone(c, IF r.pc = 1 THEN SwitchDefault(r3) ELSE r3)
                ELSE /\ inv' = [inv EXCEPT ![c] = Advance(r3, plan)]
                     /\ lastResp' = NoResp
                     /\ UNCHANGED <<lastOperationTime, operationInProgress>>

----------------------------------------------------------------------------
(* Texts, and what the shell makes of them *)

(* A text is a sequence of tokens; "'" is the single-quote character.      *)
Chars == {"a", "'"}

RECURSIVE TextsOfLen(_)
TextsOfLen(n) ==
    IF n = 0 THEN {<<>>}
    ELSE {Append(t, ch) : t \in TextsOfLen(n - 1), ch \in Chars}

Messages == UNION {TextsOfLen(n) : n \in 1..MaxMsgLen}

Quotes(t) == Cardinality({i \in 1..Len(t) : t[i] = "'"})

Unquote(t) == SelectSeq(t, LAMBDA ch : ch # "'")

RecQuotes(e) == Quotes(e.message) + Quotes(e.file) + Quotes(e.package)

RECURSIVE SeqQuotes(_)
SeqQuotes(es) ==
    IF es = <<>> THEN 0 ELSE RecQuotes(Head(es)) + SeqQuotes(Tail(es))

UnquoteRec(e) ==
    [e EXCEPT !.message = Unquote(@), !.file = Unquote(@), !.package = Unquote(@)]

RECURSIVE UnquoteAll(_)
UnquoteAll(es) ==
    IF es = <<>> THEN <<>> ELSE <<UnquoteRec(Head(es))>> \o UnquoteAll(Tail(es))

(* provider.runCommand(`echo '${JSON.stringify(cache)}' > ${errorFile}`):  *)
(* the JSON text is pasted between single quotes.  With an odd number of   *)
(* quotes in it the command line has an unterminated quote, sh rejects it  *)
(* and the file stays as it was; with an even number sh removes them.      *)
EchoToCache(old, errors, warnings) ==
    IF (SeqQuotes(errors) + SeqQuotes(warnings)) % 2 = 1
    THEN old
    ELSE CacheDoc(UnquoteAll(errors), UnquoteAll(warnings))

(* provider.runCommand(`echo '${logEntry}' >> ${logFile}`)                 *)
EchoToLog(log, line) ==
    IF Quotes(line) % 2 = 1 THEN log ELSE Append(log, Unquote(line))

(* `cat ${errorFile}`, JSON.parse, `data.errors || []`                     *)
LoadedErrors(o) ==
    IF o = "ok" /\ errorCache[detected].exists
    THEN errorCache[detected].errors
    ELSE <<>>

(* slice(-n) and slice(0, n)                                               *)
LastN(s, n) == IF Len(s) > n THEN SubSeq(s, Len(s) - n + 1, Len(s)) ELSE s
FirstN(s, n) == IF Len(s) > n THEN SubSeq(s, 1, n) ELSE s

(* Variant: one entry per key, holding the key's first record              *)
DedupByKey_KeepsFirst(s, keys) ==
    LET firsts == {i \in 1..Len(s) : \A j \in 1..(i - 1) : keys[j] # keys[i]}
        nth(n) == CHOOSE i \in firsts : Cardinality({j \in firsts : j < i}) = n - 1
    IN  [n \in 1..Cardinality(firsts) |-> s[nth(n)]]

(* Array.from(new Map(s.map(e => [key(e), e])).values()), keys[i] being    *)
(* the key of s[i]: one entry per key, at the place of the key's first     *)
(* occurrence, holding the key's last record.                              *)
DedupByKey(s, keys) ==
    LET firsts == {i \in 1..Len(s) : \A j \in 1..(i - 1) : keys[j] # keys[i]}
        nth(n) == CHOOSE i \in firsts : Cardinality({j \in firsts : j < i}) = n - 1
        lastOf(i) == CHOOSE j \in 1..Len(s) :
                        /\ keys[j] = keys[i]
                        /\ \A k \in (j + 1)..Len(s) : keys[k] # keys[i]
    IN  [n \in 1..Cardinality(firsts) |-> s[lastOf(nth(n))]]

----------------------------------------------------------------------------
(* report-dev-error: POST *)

MaxCachedErrors == 20

(* Where the reported error is: nowhere (a body without file and line) or  *)
(* at line 1 of a file.                                                    *)
Places == {[file |-> NoText, line |-> 0], [file |-> <<"App.jsx">>, line |-> 1]}

(* The request bodies of the model; error = NoText is a body without (or   *)
(* with an empty) error.                                                   *)
Requests ==
    {[error |-> m, file |-> p.file, line |-> p.line] :
        m \in Messages \cup {NoText}, p \in Places}

ReportPlan ==
    <<Detect, Cmd("catCache", TRUE, "none"), Cmd("writeCache", TRUE, "none"),
      Cmd("appendLog", TRUE, "none")>>

(* Lines 70-81 *)
ErrorObj(req, t) ==
    [type |-> "runtime-error", message |-> req.error,
     file |-> IF req.file = NoText THEN <<"Unknown">> ELSE req.file,
     line |-> req.line, package |-> NoText, timestamp |-> t]

(* Lines 98-103 *)
IsDuplicate(existing, obj) ==
    \E i \in 1..Len(existing) :
        /\ existing[i].message = obj.message
        /\ existing[i].file = obj.file
        /\ existing[i].line = obj.line

(* Line 132: the line appended to the dev log                              *)
LogEntry(req) ==
    <<"ERROR:">> \o req.error
    \o (IF req.file # NoText THEN <<"in">> \o req.file ELSE <<>>)
    \o (IF req.line # 0 THEN <<":1">> ELSE <<>>)

ReportReply(r) ==
    [Reply("report", "none", 200, "reported", TRUE, 0)
        EXCEPT !.isDuplicate = r.isDuplicate, !.totalErrors = Len(r.errors)]

(* Lines 9-29: the synchronous head of the handler.                        *)
ReportError(c, req) ==
    /\ FreeSlot(c)
    /\ Len(devLog) < MaxLogLines
    /\ Len(errorCache[detected].errors) < MaxErrors
    /\ UNCHANGED <<provider, lib, detected, now, session, files, reported>>
    /\ IF ~HasSandbox(provider)
       THEN /\ lastResp' = Reply("report", "none", 400, "no-sandbox", FALSE, 0)
            /\ UNCHANGED inv
       ELSE IF req.error = NoText
       THEN /\ lastResp' = Reply("report", "none", 400, "error-required", FALSE, 0)
            /\ UNCHANGED inv
       ELSE /\ inv' = [inv EXCEPT ![c] =
                          [Idle EXCEPT !.kind = "report", !.pc = 1, !.req = req]]
            /\ lastResp' = NoResp

(* One await of the handler completes with outcome o, and the code runs on *)
(* to the next await or to the return.  Every await sits in a try/catch    *)
(* that goes on.                                                           *)
ReportStep(c, o) ==
    LET r == inv[c]
        e == ReportPlan[r.pc]
        r2 == [r EXCEPT !.cmds = Append(@, e.name), !.faults = @ \/ o # "ok"]
    IN  /\ r.kind = "report"
        /\ UNCHANGED <<provider, lib, detected, now, session>>
        /\ CASE e.name = "detect" ->
                  /\ inv' = [inv EXCEPT ![c] =
                                [Advance(r2, ReportPlan) EXCEPT !.stamp = now]]
                  /\ lastResp' = NoResp
                  /\ UNCHANGED <<files, reported>>
             [] e.name = "catCache" ->
                  LET existing == LoadedErrors(o)
                      obj == ErrorObj(r.req, r.stamp)
                      dup == IsDuplicate(existing, obj)
                  IN  /\ inv' = [inv EXCEPT ![c] =
                                    [Advance(r2, ReportPlan) EXCEPT
                                        !.isDuplicate = dup,
                                        !.errors = IF dup THEN existing
                                                   ELSE LastN(Append(existing, obj),
                                                              MaxCachedErrors)]]
                      /\ lastResp' = NoResp
                      /\ UNCHANGED <<files, reported>>
             [] e.name = "writeCache" ->
                  /\ errorCache' =
                        IF o = "ok"
                        THEN [errorCache EXCEPT ![detected] =
                                 EchoToCache(@, r.errors, <<>>)]
                        ELSE errorCache
                  /\ inv' = [inv EXCEPT ![c] = Advance(r2, ReportPlan)]
                  /\ lastResp' = NoResp
                  /\ UNCHANGED <<devLog, reported>>
             [] OTHER ->
                  /\ devLog' = IF o = "ok" THEN EchoToLog(devLog, LogEntry(r.req))
                               ELSE devLog
                  /\ lastResp' = ReportReply(r2)
                  /\ inv' = [inv EXCEPT ![c] = Idle]
                  /\ reported' = [req |-> r.req, isDuplicate |-> r.isDuplicate,
                                  totalErrors |-> Len(r.errors),
                                  errors |-> errorCache[detected].errors,
                                  faults |-> r2.faults, made |-> TRUE]
                  /\ UNCHANGED errorCache

----------------------------------------------------------------------------
(* monitor-dev-logs: GET *)

MaxMonitorErrors == 10
MaxMonitorWarnings == 5
MaxMonitorInfo == 3
TailLines == 100

(* The file the start command redirects the server's output to, and        *)
(* reportError appends to: `/tmp/${detection.framework}-dev.log`.          *)
DevLogPath(fw) ==
    CASE fw = "nextjs" -> "/tmp/nextjs-dev.log"
      [] fw = "vite" -> "/tmp/vite-dev.log"
      [] OTHER -> "/tmp/cra-dev.log"

MonitorPlan(fw) ==
    <<Detect, Cmd("catCache", TRUE, "none")>>
    \o Repeat(Cmd("tail", TRUE, "none"), NumLogFiles(fw))
    \o <<Cmd("writeCache", TRUE, "none")>>

(* The rule a token makes a line match: the substring tests of lines       *)
(* 254-321 on the lower-cased line, for the tokens of the model.           *)
TokenRule(t) ==
    CASE t \in {"Failed to resolve import", "Module not found: Can't resolve"} -> "import"
      [] t \in {"SyntaxError:"} -> "syntax-error"
      [] t \in {"Type error:", "TS2304:"} -> "type-error"
      [] t \in {"Failed to compile", "Build failed with 1 error"} -> "build-error"
      [] t \in {"warning", "WARN"} -> "warning"
      [] t \in {"compiled successfully", "ready in", "Local:"} -> "success"
      [] OTHER -> "none"

(* Variant: the warning test comes first in the chain                      *)
RuleOrder_WarningFirst ==
    <<"warning", "import", "syntax-error", "type-error", "build-error", "success">>

RuleOrder == <<"import", "syntax-error", "type-error", "build-error", "warning", "success">>

Matches(line, rule) == \E i \in 1..Len(line) : TokenRule(line[i]) = rule

(* The first rule of the if / else-if chain the line matches.              *)
LineRule(line) ==
    IF \E k \in 1..Len(RuleOrder) : Matches(line, RuleOrder[k])
    THEN RuleOrder[CHOOSE k \in 1..Len(RuleOrder) :
                      /\ Matches(line, RuleOrder[k])
                      /\ \A j \in 1..(k - 1) : ~Matches(line, RuleOrder[j])]
    ELSE "none"

(* errorPatterns.importError of the framework: the phrase followed by the  *)
(* quoted import path.                                                     *)
ImportPhrase(fw) ==
    IF fw = "vite" THEN "Failed to resolve import" ELSE "Module not found: Can't resolve"

(* The import paths of the model, each standing in a line between the     *)
(* quotes the pattern of the line's phrase asks for.                       *)
ImportPaths ==
    {"./local", "../up", "@scope/pkg/sub", "@scope/pkg", "@scope", "lodash/fp", "lodash"}

(* importPath.split('/') *)
PathParts(path) ==
    CASE path = "./local" -> <<".", "local">>
      [] path = "../up" -> <<"..", "up">>
      [] path = "@scope/pkg/sub" -> <<"@scope", "pkg", "sub">>
      [] path = "@scope/pkg" -> <<"@scope", "pkg">>
      [] path = "lodash/fp" -> <<"lodash", "fp">>
      [] OTHER -> <<path>>

(* The first character of a path segment, as far as the code tests it      *)
FirstChar(segment) ==
    CASE segment \in {".", ".."} -> "."
      [] segment \in {"@scope"} -> "@"
      [] OTHER -> "a"

(* A package name that takes the first segment of every path.              *)
BasePackage_FirstSegment(path) ==
    <<PathParts(path)[1]>>

(* Lines 205-216: the base package of an import path, as the sequence of   *)
(* its segments; NoText (null) for a relative path.                        *)
BasePackage(path) ==
    LET parts == PathParts(path)
    IN  IF FirstChar(parts[1]) = "." THEN NoText
        ELSE IF FirstChar(parts[1]) = "@"
             THEN (IF Len(parts) >= 2 THEN SubSeq(parts, 1, 2) ELSE parts)
             ELSE <<parts[1]>>

(* Lines 198-217: the first place of the line where the framework's phrase *)
(* is followed by a quoted path decides.                                   *)
extractPackageFromImportError(line, fw) ==
    LET hits == {i \in 1..(Len(line) - 1) :
                    line[i] = ImportPhrase(fw) /\ line[i + 1] \in ImportPaths}
    IN  IF fw \notin Frameworks \/ hits = {} THEN NoText
        ELSE BasePackage(line[1 + CHOOSE i \in hits : \A j \in hits : i <= j])

LogRecord(type, message, t) ==
    [type |-> type, message |-> message, file |-> NoText, line |-> 0,
     package |-> NoText, timestamp |-> t]

(* Variant: the lines of the error rules add no record.                    *)
Classify_ErrorsDropped(acc, line, fw, t) ==
    LET rule == LineRule(line)
    IN  CASE rule = "warning" ->
               [acc EXCEPT !.warnings = Append(@, LogRecord(rule, line, t))]
          [] rule = "success" ->
               [acc EXCEPT !.info = Append(@, LogRecord(rule, line, t))]
          [] OTHER -> acc

(* Lines 250-332: one log line, added to the records collected so far.    *)
Classify(acc, line, fw, t) ==
    LET rule == LineRule(line)
        pkg == extractPackageFromImportError(line, fw)
    IN  CASE rule = "import" ->
               IF pkg # NoText /\ \A i \in 1..Len(acc.errors) : acc.errors[i].package # pkg
               THEN [acc EXCEPT !.errors = Append(@,
                        [LogRecord("npm-missing", <<"Failed to resolve import">> \o pkg, t)
                            EXCEPT !.package = pkg, !.file = <<"Unknown">>])]
               ELSE acc
          [] rule \in {"syntax-error", "type-error", "build-error"} ->
               [acc EXCEPT !.errors = Append(@, LogRecord(rule, line, t))]
          [] rule = "warning" ->
               [acc EXCEPT !.warnings = Append(@, LogRecord(rule, line, t))]
          [] rule = "success" ->
               [acc EXCEPT !.info = Append(@, LogRecord(rule, line, t))]
          [] OTHER -> acc

RECURSIVE ClassifyAll(_, _, _, _)
ClassifyAll(acc, lines, fw, t) ==
    IF lines = <<>> THEN acc
    ELSE ClassifyAll(Classify(acc, Head(lines), fw, t), Tail(lines), fw, t)

(* Lines 338-347 *)
ErrorKey(e) == <<e.type, IF e.package # NoText THEN e.package ELSE e.message>>
WarningKey(w) == w.message

UniqueErrors(errors) ==
    FirstN(DedupByKey(errors, [i \in 1..Len(errors) |-> ErrorKey(errors[i])]),
           MaxMonitorErrors)

UniqueWarnings(warnings) ==
    FirstN(DedupByKey(warnings, [i \in 1..Len(warnings) |-> WarningKey(warnings[i])]),
           MaxMonitorWarnings)

(* Lines 167-175: the synchronous head of the handler.                     *)
MonitorLogs(c) ==
    /\ FreeSlot(c)
    /\ UNCHANGED <<provider, lib, detected, now, session, files, reported>>
    /\ IF ~HasSandbox(provider)
       THEN /\ lastResp' = Reply("monitor", "none", 400, "no-sandbox", FALSE, 0)
            /\ UNCHANGED inv
       ELSE /\ inv' = [inv EXCEPT ![c] = [Idle EXCEPT !.kind = "monitor", !.pc = 1]]
            /\ lastResp' = NoResp

(* One await of the handler completes with outcome o.  The `test -f` that  *)
(* precedes each tail is folded into the tail: a log file that does not    *)
(* exist, or a command that fails, contributes no line.  Of the declared   *)
(* log files the sandbox of the model holds the dev log only.              *)
MonitorStep(c, o) ==
    LET r == inv[c]
        plan == MonitorPlan(detected)
        e == plan[r.pc]
        r2 == [r EXCEPT !.cmds = Append(@, e.name), !.faults = @ \/ o # "ok"]
    IN  /\ r.kind = "monitor"
        /\ UNCHANGED <<provider, lib, detected, now, session, devLog>>
        /\ CASE e.name = "detect" ->
                  /\ inv' = [inv EXCEPT ![c] = Advance(r2, plan)]
                  /\ lastResp' = NoResp
                  /\ UNCHANGED <<errorCache, reported>>
             [] e.name = "catCache" ->
                  /\ inv' = [inv EXCEPT ![c] =
                                [Advance(r2, plan) EXCEPT !.errors = LoadedErrors(o)]]
                  /\ lastResp' = NoResp
                  /\ UNCHANGED <<errorCache, reported>>
             [] e.name = "tail" ->
                  LET lines == IF o = "ok" /\ LogFiles(detected)[r.pc - 2] = DevLogPath(detected)
                               THEN LastN(devLog, TailLines) ELSE <<>>
                      acc == ClassifyAll([errors |-> r.errors, warnings |-> r.warnings,
                                          info |-> r.info], lines, detected, now)
                  IN  /\ inv' = [inv EXCEPT ![c] =
                                    [Advance(r2, plan) EXCEPT !.errors = acc.errors,
                                                              !.warnings = acc.warnings,
                                                              !.info = acc.info]]
                      /\ lastResp' = NoResp
                      /\ UNCHANGED <<errorCache, reported>>
             [] OTHER ->
                  /\ errorCache' =
                        IF o = "ok"
                        THEN [errorCache EXCEPT ![detected] =
                                 EchoToCache(@, UniqueErrors(r.errors),
                                             UniqueWarnings(r.warnings))]
                        ELSE errorCache
                  /\ reported' = IF o = "ok" THEN NoReport ELSE reported
                  /\ lastResp' = [Reply("monitor", "none", 200, "monitored", TRUE, 0)
                                     EXCEPT !.totalErrors = Len(UniqueErrors(r.errors)),
                                            !.errors = UniqueErrors(r.errors),
                                            !.warnings = UniqueWarnings(r.warnings),
                                            !.info = LastN(r.info, MaxMonitorInfo)]
                  /\ inv' = [inv EXCEPT ![c] = Idle]

(* The dev server, started with its output redirected to the dev log,     *)
(* prints a line.                                                          *)
ServerLines ==
    {<<"SyntaxError:">>, <<"TS2304:">>, <<"Failed to resolve import", "lodash">>,
     <<"WARN">>, <<"ready in">>}

ServerLogs(line) ==
    /\ Len(devLog) < MaxLogLines
    /\ devLog' = Append(devLog, line)
    /\ lastResp' = NoResp
    /\ UNCHANGED <<provider, lib, detected, now, session, errorCache, inv, reported>>

(* The cache after n reports of errors with n different messages (of 1 to *)
(* n characters) at line 1 of a file                                       *)
StoredErrors(n) ==
    [i \in 1..n |->
        ErrorObj([error |-> [j \in 1..i |-> "a"], file |-> <<"App.jsx">>, line |-> 1],
                 StartTime)]

----------------------------------------------------------------------------
(* check-dev-errors: GET *)

MaxSyntaxLines == 5
MaxTypeLines == 3

(* Detection, the cache, one grep for import errors per log file, then one *)
(* grep for syntax errors and one for type errors per log file, the cache  *)
(* write.  The `test -f` before a grep is folded into the grep.            *)
CheckPlan(fw) ==
    <<Detect, Cmd("catCache", TRUE, "none")>>
    \o Repeat(Cmd("grepImport", TRUE, "none"), NumLogFiles(fw))
    \o [i \in 1..(2 * NumLogFiles(fw)) |->
           IF i % 2 = 1 THEN Cmd("grepSyntax", TRUE, "none")
           ELSE Cmd("grepType", TRUE, "none")]
    \o <<Cmd("writeCache", TRUE, "none")>>

(* The log file that the command at place pc of the plan reads             *)
CheckedFile(fw, pc) ==
    LET n == NumLogFiles(fw)
    IN  IF pc <= 2 + n THEN LogFiles(fw)[pc - 2]
        ELSE LogFiles(fw)[(pc - 2 - n + 1) \div 2]

(* grep -i of the phrases of a rule: the lines that hold one of them       *)
Grep(lines, rule) == SelectSeq(lines, LAMBDA line : Matches(line, rule))

(* Line 231: grep "failed to resolve" || grep "module not found" || ...:   *)
(* the lines of the first phrase that is found in the file at all.         *)
GrepImport(lines) ==
    LET holds(t) == SelectSeq(lines, LAMBDA line : \E i \in 1..Len(line) : line[i] = t)
    IN  IF holds("Failed to resolve import") # <<>>
        THEN holds("Failed to resolve import")
        ELSE holds("Module not found: Can't resolve")

(* Lines 236-253: the import errors of the lines, added to the errors      *)
(* unless their package is there already; the records have no timestamp.   *)
RECURSIVE ImportErrors(_, _, _)
ImportErrors(errors, lines, fw) ==
    IF lines = <<>> THEN errors
    ELSE LET pkg == extractPackageFromImportError(Head(lines), fw)
             new == IF pkg # NoText /\ \A i \in 1..Len(errors) : errors[i].package # pkg
                    THEN <<[LogRecord("npm-missing",
                                      <<"Failed to resolve import">> \o pkg, 0)
                               EXCEPT !.package = pkg, !.file = <<"Unknown">>]>>
                    ELSE <<>>
         IN  ImportErrors(errors \o new, Tail(lines), fw)

(* Lines 271-277 and 285-291: a record per line, of the first n lines      *)
LineErrors(lines, type, n) ==
    [i \in 1..Len(FirstN(lines, n)) |-> LogRecord(type, lines[i], 0)]

(* Lines 298-308: the first record of every key, in order                  *)
UniqueByKey(s, keys) ==
    LET firsts == {i \in 1..Len(s) : \A j \in 1..(i - 1) : keys[j] # keys[i]}
        nth(n) == CHOOSE i \in firsts : Cardinality({j \in firsts : j < i}) = n - 1
    IN  [n \in 1..Cardinality(firsts) |-> s[nth(n)]]

(* Lines 152-161: the synchronous head of the handler.                     *)
CheckDevErrors(c) ==
    /\ FreeSlot(c)
    /\ UNCHANGED <<provider, lib, detected, now, session, files, reported>>
    /\ IF ~HasSandbox(provider)
       THEN /\ lastResp' = Reply("check", "none", 400, "no-sandbox", FALSE, 0)
            /\ UNCHANGED inv
       ELSE /\ inv' = [inv EXCEPT ![c] = [Idle EXCEPT !.kind = "check", !.pc = 1]]
            /\ lastResp' = NoResp

(* One await of the handler completes with outcome o.  A grep gives lines  *)
(* when it exits with 0; the two greps of a log file share one try block,  *)
(* so a throw of the first skips the second.                               *)
CheckStep(c, o) ==
    LET r == inv[c]
        plan == CheckPlan(detected)
        e == plan[r.pc]
        r2 == [r EXCEPT !.cmds = Append(@, e.name), !.faults = @ \/ o # "ok"]
        lines == IF o = "ok" /\ CheckedFile(detected, r.pc) = DevLogPath(detected)
                 THEN devLog ELSE <<>>
    IN  /\ r.kind = "check"
        /\ UNCHANGED <<provider, lib, detected, now, session, devLog, reported>>
        /\ CASE e.name = "detect" ->
                  /\ inv' = [inv EXCEPT ![c] = Advance(r2, plan)]
                  /\ lastResp' = NoResp
                  /\ UNCHANGED errorCache
             [] e.name = "catCache" ->
                  /\ inv' = [inv EXCEPT ![c] =
                                [Advance(r2, plan) EXCEPT !.errors = LoadedErrors(o)]]
                  /\ lastResp' = NoResp
                  /\ UNCHANGED errorCache
             [] e.name = "grepImport" ->
                  /\ inv' = [inv EXCEPT ![c] =
                                [Advance(r2, plan) EXCEPT
                                    !.errors = ImportErrors(@, GrepImport(lines), detected)]]
                  /\ lastResp' = NoResp
                  /\ UNCHANGED errorCache
             [] e.name = "grepSyntax" ->
                  LET r3 == [r2 EXCEPT !.errors =
                                @ \o LineErrors(Grep(lines, "syntax-error"),
                                                "syntax-error", MaxSyntaxLines)]
                  IN  /\ inv' = [inv EXCEPT ![c] =
                                    IF Throws(o)
                                    THEN Advance([r3 EXCEPT !.pc = @ + 1], plan)
                                    ELSE Advance(r3, plan)]
                      /\ lastResp' = NoResp
                      /\ UNCHANGED errorCache
             [] e.name = "grepType" ->
                  /\ inv' = [inv EXCEPT ![c] =
                                [Advance(r2, plan) EXCEPT !.errors =
                                    @ \o LineErrors(Grep(lines, "type-error"),
                                                    "type-error", MaxTypeLines)]]
                  /\ lastResp' = NoResp
                  /\ UNCHANGED errorCache
             [] OTHER ->
                  LET uniqueErrors == UniqueByKey(r.errors, [i \in 1..Len(r.errors) |->
                                                               ErrorKey(r.errors[i])])
                  IN  /\ errorCache' =
                            IF o = "ok"
                            THEN [errorCache EXCEPT ![detected] =
                                     EchoToCache(@, uniqueErrors, <<>>)]
                            ELSE errorCache
                      /\ lastResp' = [Reply("check", "none", 200, "checked", TRUE, 0)
                                         EXCEPT !.totalErrors = Len(uniqueErrors),
                                                !.errors = uniqueErrors]
                      /\ inv' = [inv EXCEPT ![c] = Idle]

----------------------------------------------------------------------------
(* clear-dev-errors-cache: POST *)

allFrameworks == <<"nextjs", "vite", "cra">>

(* `/tmp/${framework}-errors.json` *)
CacheFile(fw) ==
    CASE fw = "nextjs" -> "/tmp/nextjs-errors.json"
      [] fw = "vite" -> "/tmp/vite-errors.json"
      [] OTHER -> "/tmp/cra-errors.json"

(* A loop over the other frameworks that visits none.                      *)
OtherFrameworks_None(fw) == <<>>

OtherFrameworks(fw) == SelectSeq(allFrameworks, LAMBDA f : f # fw)

ClearPlan(fw) ==
    <<Detect, Cmd("rmCache", FALSE, "none")>>
    \o Repeat(Cmd("rmOther", TRUE, "none"), Len(OtherFrameworks(fw)))
    \o <<Cmd("writeFresh", FALSE, "none")>>

(* Lines 8-17: the synchronous head of the handler.                        *)
ClearErrorCache(c) ==
    /\ FreeSlot(c)
    /\ UNCHANGED <<provider, lib, detected, now, session, files, reported>>
    /\ IF ~HasSandbox(provider)
       THEN /\ lastResp' = Reply("clear", "none", 400, "no-sandbox", FALSE, 0)
            /\ UNCHANGED inv
       ELSE /\ inv' = [inv EXCEPT ![c] = [Idle EXCEPT !.kind = "clear", !.pc = 1]]
            /\ lastResp' = NoResp

(* One await of the handler completes with outcome o.  The catch blocks of *)
(* the first rm and of the fresh-cache write read error.message: with a    *)
(* thrown value that has none they throw, and the outer catch block        *)
(* answers 500.  `rm -f` that succeeds removes the file and adds it to     *)
(* clearedFiles; the fresh document's text has no quote in it.             *)
ClearStep(c, o) ==
    LET r == inv[c]
        plan == ClearPlan(detected)
        e == plan[r.pc]
        target == CASE e.name = "rmOther" -> OtherFrameworks(detected)[r.pc - 2]
                    [] OTHER -> detected
        r2 == [r EXCEPT !.cmds = Append(@, e.name), !.faults = @ \/ o # "ok",
                        !.cleared = IF e.name \in {"rmCache", "rmOther"} /\ o = "ok"
                                    THEN Append(@, CacheFile(target)) ELSE @]
    IN  /\ r.kind = "clear"
        /\ UNCHANGED <<provider, lib, detected, now, session, devLog>>
        /\ errorCache' =
              CASE e.name \in {"rmCache", "rmOther"} /\ o = "ok" ->
                      [errorCache EXCEPT ![target] = NoFile]
                [] e.name = "writeFresh" /\ o = "ok" ->
                      [errorCache EXCEPT ![target] = CacheDoc(<<>>, <<>>)]
                [] OTHER -> errorCache
        /\ reported' = IF e.name # "detect" /\ o = "ok" THEN NoReport ELSE reported
        /\ IF ~e.tol /\ o = "throwNull"
           THEN /\ lastResp' = Reply("clear", "none", 500, "error", FALSE, 0)
                /\ inv' = [inv EXCEPT ![c] = Idle]
           ELSE IF r.pc = Len(plan)
                THEN /\ lastResp' = [Reply("clear", "none", 200, "cleared", TRUE, 0)
                                        EXCEPT !.clearedFiles = r2.cleared]
                     /\ inv' = [inv EXCEPT ![c] = Idle]
                ELSE /\ inv' = [inv EXCEPT ![c] = Advance(r2, plan)]
                     /\ lastResp' = NoResp

----------------------------------------------------------------------------
(* src/lib/framework-detector.ts: detectFramework *)

MaxDeps == 3

DepWeight == 30
DevDepWeight == 20
DevScriptWeight == 15
BuildScriptWeight == 10
ConfigFileWeight == 25
ProcessWeight == 15
FullScore == 100

(* No call of a library function, and a call that has not returned.        *)
NoCall == [fn |-> "none"]
Pending == [returned |-> FALSE]

(* frameworkConfigs[fw].packagePatterns, .configFiles, .devCommand and     *)
(* .buildCommand (commands as their words).                                *)
dependencies(fw) ==
    CASE fw = "nextjs" -> <<"next", "react", "react-dom">>
      [] fw = "vite" -> <<"vite">>
      [] OTHER -> <<"react-scripts">>

devDependencies(fw) ==
    CASE fw = "nextjs" -> <<"@types/react", "@types/node">>
      [] fw = "vite" -> <<"@vitejs/plugin-react", "@vitejs/plugin-react-swc">>
      [] OTHER -> <<>>

configFiles(fw) ==
    CASE fw = "nextjs" -> <<"next.config.js", "next.config.ts", "next.config.mjs">>
      [] fw = "vite" -> <<"vite.config.js", "vite.config.ts", "vite.config.mjs">>
      [] OTHER -> <<"public/index.html", "src/index.js", "src/index.tsx">>

configDevCommand(fw) ==
    CASE fw = "cra" -> <<"npm", "start">>
      [] OTHER -> <<"npm", "run", "dev">>

configBuildCommand(fw) == <<"npm", "run", "build">>

(* cmd.includes(word), for a word no other word of the commands contains   *)
Includes(cmd, word) == \E i \in 1..Len(cmd) : cmd[i] = word

(* The names a manifest of the model declares (under dependencies or       *)
(* devDependencies: the code merges the two), the scripts it has, the      *)
(* files of the project and the frameworks whose process `ps` shows.       *)
DepNames ==
    {"next", "react", "react-dom", "@types/react", "@types/node", "vite",
     "@vitejs/plugin-react", "@vitejs/plugin-react-swc", "react-scripts", "lodash"}

ScriptNames == {"dev", "build"}

ProjectFiles ==
    {"next.config.js", "next.config.ts", "next.config.mjs",
     "vite.config.js", "vite.config.ts", "vite.config.mjs",
     "public/index.html", "src/index.js", "src/index.tsx"}

(* The three optional arguments.  A manifest is the names it declares with *)
(* a version and the scripts it has; fileExists is the set of paths it     *)
(* answers true for and the set of paths for which it throws; runCommand   *)
(* is the set of frameworks whose process check exits 0 with output and    *)
(* the set of frameworks for whose check it throws.                        *)
NoManifest == [present |-> FALSE, deps |-> {}, scripts |-> {}]
NoFileExists == [present |-> FALSE, found |-> {}, throws |-> {}]
NoRunCommand == [present |-> FALSE, procs |-> {}, throws |-> {}]

Manifests ==
    {NoManifest} \cup
    {[present |-> TRUE, deps |-> d, scripts |-> sc] :
        d \in {x \in SUBSET DepNames : Cardinality(x) <= MaxDeps},
        sc \in SUBSET ScriptNames}

FileChecks ==
    {NoFileExists} \cup
    {[present |-> TRUE, found |-> f, throws |-> {}] :
        f \in {{}} \cup {{x} : x \in ProjectFiles}
              \cup {{configFiles(fw)[i] : i \in 1..Len(configFiles(fw))} :
                        fw \in Frameworks}}

ProcessChecks ==
    {NoRunCommand} \cup
    {[present |-> TRUE, procs |-> q, throws |-> {}] : q \in SUBSET Frameworks}

Signal(kind, what) == [kind |-> kind, what |-> what]

(* One evidence string per declared name that is found, in declared order  *)
Found(kind, declared, present) ==
    [i \in 1..Len(SelectSeq(declared, LAMBDA x : x \in present)) |->
        Signal(kind, SelectSeq(declared, LAMBDA x : x \in present)[i])]

(* The signals of the manifest, lines 106-135                              *)
ManifestEvidence(fw, packageJson) ==
    IF packageJson.present
    THEN Found("dependency", dependencies(fw), packageJson.deps)
         \o Found("dev dependency", devDependencies(fw), packageJson.deps)
         \o (IF "dev" \in packageJson.scripts /\ Includes(configDevCommand(fw), "dev")
             THEN <<Signal("script", "dev")>> ELSE <<>>)
         \o (IF "build" \in packageJson.scripts /\ Includes(configBuildCommand(fw), "build")
             THEN <<Signal("script", "build")>> ELSE <<>>)
    ELSE <<>>

(* Variant: one try block around the loop over the config files, so that   *)
(* a check that throws ends the loop.                                      *)
Evidence_ThrowEndsLoop(fw, packageJson, fileExists, runCommand) ==
    LET declared == configFiles(fw)
        upTo == IF \E i \in 1..Len(declared) : declared[i] \in fileExists.throws
                THEN (CHOOSE i \in 1..Len(declared) :
                         /\ declared[i] \in fileExists.throws
                         /\ \A j \in 1..(i - 1) : declared[j] \notin fileExists.throws) - 1
                ELSE Len(declared)
    IN  ManifestEvidence(fw, packageJson)
        \o (IF fileExists.present
            THEN Found("config file", SubSeq(declared, 1, upTo), fileExists.found)
            ELSE <<>>)
        \o (IF runCommand.present /\ fw \in runCommand.procs \ runCommand.throws
            THEN <<Signal("process", fw)>> ELSE <<>>)

(* Lines 102-162: the evidence collected for one framework.  Every file    *)
(* check sits in its own try/catch (lines 140-147) and so does the process *)
(* check (lines 153-161): a check that throws adds nothing and the loop    *)
(* goes on.                                                                *)
Evidence(fw, packageJson, fileExists, runCommand) ==
    ManifestEvidence(fw, packageJson)
    \o (IF fileExists.present
        THEN Found("config file", configFiles(fw), fileExists.found \ fileExists.throws)
        ELSE <<>>)
    \o (IF runCommand.present /\ fw \in runCommand.procs \ runCommand.throws
        THEN <<Signal("process", fw)>> ELSE <<>>)

(* A dependency that counts less than the scripts together.                *)
Weight_LightDependency(sig) ==
    CASE sig.kind = "dependency" -> DevDepWeight
      [] sig.kind = "dev dependency" -> DevDepWeight
      [] sig.kind = "script" /\ sig.what = "dev" -> DevScriptWeight
      [] sig.kind = "script" -> BuildScriptWeight
      [] sig.kind = "config file" -> ConfigFileWeight
      [] OTHER -> ProcessWeight

(* What the signal adds to the score                                       *)
Weight(sig) ==
    CASE sig.kind = "dependency" -> DepWeight
      [] sig.kind = "dev dependency" -> DevDepWeight
      [] sig.kind = "script" /\ sig.what = "dev" -> DevScriptWeight
      [] sig.kind = "script" -> BuildScriptWeight
      [] sig.kind = "config file" -> ConfigFileWeight
      [] OTHER -> ProcessWeight

RECURSIVE Score(_)
Score(evidence) ==
    IF evidence = <<>> THEN 0 ELSE Weight(Head(evidence)) + Score(Tail(evidence))

(* frameworkConfigs[fw].name: the profile registered under fw              *)
configName(fw) ==
    CASE fw = "nextjs" -> "Next.js"
      [] fw = "vite" -> "Vite"
      [] OTHER -> "Create React App"

(* The result; confidence in hundredths, config by the name of the profile *)
(* (lines 176 and 184: frameworkConfigs of the framework returned).        *)
DetectionResult(fw, confidence, evidence) ==
    [returned |-> TRUE, framework |-> fw, confidence |-> confidence,
     config |-> configName(fw), evidence |-> evidence]

Fallback_Unexplained ==
    DetectionResult("vite", 0, <<>>)

(* Lines 171-179 *)
Fallback ==
    DetectionResult("vite", 0, <<Signal("none", "No clear framework detected, defaulting to Vite")>>)

(* Variant: of the frameworks with the highest score the one registered   *)
(* last is the best                                                        *)
detectFramework_LastWins(packageJson, fileExists, runCommand) ==
    LET ev(i) == Evidence(allFrameworks[i], packageJson, fileExists, runCommand)
        best == CHOOSE i \in 1..Len(allFrameworks) :
                   /\ \A j \in 1..Len(allFrameworks) : Score(ev(j)) <= Score(ev(i))
                   /\ \A j \in (i + 1)..Len(allFrameworks) : Score(ev(j)) < Score(ev(i))
        score == Score(ev(best))
    IN  IF score = 0 THEN Fallback
        ELSE DetectionResult(allFrameworks[best],
                             IF score < FullScore THEN score ELSE FullScore,
                             ev(best))

(* Variant: the confidence is the score, not cut at the full score         *)
detectFramework_Unclipped(packageJson, fileExists, runCommand) ==
    LET ev(i) == Evidence(allFrameworks[i], packageJson, fileExists, runCommand)
        best == CHOOSE i \in 1..Len(allFrameworks) :
                   /\ \A j \in 1..Len(allFrameworks) : Score(ev(j)) <= Score(ev(i))
                   /\ \A j \in 1..(i - 1) : Score(ev(j)) < Score(ev(i))
        score == Score(ev(best))
    IN  IF score = 0 THEN Fallback
        ELSE DetectionResult(allFrameworks[best], score, ev(best))

(* Lines 99-187.  The sort is stable: of the frameworks with the highest   *)
(* score the one registered first is the best.                             *)
detectFramework(packageJson, fileExists, runCommand) ==
    LET ev(i) == Evidence(allFrameworks[i], packageJson, fileExists, runCommand)
        best == CHOOSE i \in 1..Len(allFrameworks) :
                   /\ \A j \in 1..Len(allFrameworks) : Score(ev(j)) <= Score(ev(i))
                   /\ \A j \in 1..(i - 1) : Score(ev(j)) < Score(ev(i))
        score == Score(ev(best))
    IN  IF score = 0 THEN Fallback
        ELSE DetectionResult(allFrameworks[best],
                             IF score < FullScore THEN score ELSE FullScore,
                             ev(best))

(* A call of detectFramework, and its return.                              *)
DetectCalls ==
    {[fn |-> "detectFramework", packageJson |-> m, fileExists |-> fe,
      runCommand |-> rc, result |-> Pending] :
        m \in Manifests, fe \in FileChecks, rc \in ProcessChecks}

(* Calls whose capabilities throw for some of the paths and frameworks     *)
FaultyFiles == {"next.config.js", "next.config.ts", "vite.config.js", "public/index.html"}

FaultyCalls ==
    {[fn |-> "detectFramework", packageJson |-> m,
      fileExists |-> [present |-> TRUE, found |-> f, throws |-> ft],
      runCommand |-> [present |-> TRUE, procs |-> q, throws |-> qt],
      result |-> Pending] :
        m \in {NoManifest,
               [present |-> TRUE, deps |-> {"vite"}, scripts |-> {"dev"}],
               [present |-> TRUE, deps |-> {"next"}, scripts |-> {}]},
        f \in SUBSET FaultyFiles, ft \in SUBSET FaultyFiles,
        q \in SUBSET Frameworks, qt \in SUBSET Frameworks}

DetectFramework ==
    /\ lib.fn = "detectFramework" /\ ~lib.result.returned
    /\ lib' = [lib EXCEPT !.result =
                  detectFramework(lib.packageJson, lib.fileExists, lib.runCommand)]
    /\ UNCHANGED <<provider, detected, now, session, files, inv, lastResp, reported>>

----------------------------------------------------------------------------
(* src/lib/framework-commands.ts: getCommand, buildCommand,                *)
(* getInstallCommand.  A command is the sequence of its words.             *)

MaxArgs == 2
MaxPackages == 2

(* frameworkCommands: the variants of an action, <<>> for a framework or   *)
(* an action the table does not have.                                      *)
frameworkCommands(fw, action) ==
    IF fw \notin Frameworks THEN <<>>
    ELSE CASE action = "install" ->
                 IF fw = "cra"
                 THEN <<<<"npm", "install">>, <<"yarn", "install">>>>
                 ELSE <<<<"npm", "install">>, <<"yarn", "install">>, <<"pnpm", "install">>>>
           [] action = "dev" ->
                 IF fw = "cra"
                 THEN <<<<"npm", "start">>, <<"yarn", "start">>>>
                 ELSE <<<<"npm", "run", "dev">>, <<"yarn", "dev">>, <<"pnpm", "dev">>>>
           [] action = "build" ->
                 IF fw = "cra"
                 THEN <<<<"npm", "run", "build">>, <<"yarn", "build">>>>
                 ELSE <<<<"npm", "run", "build">>, <<"yarn", "build">>, <<"pnpm", "build">>>>
           [] action = "start" ->
                 CASE fw = "nextjs" ->
                         <<<<"npm", "start">>, <<"yarn", "start">>, <<"pnpm", "start">>>>
                   [] fw = "vite" ->
                         <<<<"npm", "run", "preview">>, <<"yarn", "preview">>,
                           <<"pnpm", "preview">>>>
                   [] OTHER ->
                         <<<<"npx", "serve", "-s", "build">>,
                           <<"yarn", "global", "add", "serve", "&&", "serve", "-s", "build">>>>
           [] action = "test" ->
                 IF fw = "cra"
                 THEN <<<<"npm", "test">>, <<"yarn", "test">>>>
                 ELSE <<<<"npm", "test">>, <<"yarn", "test">>, <<"pnpm", "test">>>>
           [] action = "lint" ->
                 IF fw = "cra"
                 THEN <<<<"npm", "run", "lint">>, <<"yarn", "lint">>>>
                 ELSE <<<<"npm", "run", "lint">>, <<"yarn", "lint">>, <<"pnpm", "lint">>>>
           [] action = "typecheck" ->
                 IF fw = "cra"
                 THEN <<<<"npx", "tsc", "--noEmit">>, <<"yarn", "tsc", "--noEmit">>>>
                 ELSE <<<<"npx", "tsc", "--noEmit">>, <<"yarn", "tsc", "--noEmit">>,
                        <<"pnpm", "tsc", "--noEmit">>>>
           [] action = "clean" ->
                 CASE fw = "nextjs" ->
                         <<<<"rm", "-rf", ".next">>, <<"rm", "-rf", "node_modules/.cache">>>>
                   [] fw = "vite" ->
                         <<<<"rm", "-rf", "dist">>, <<"rm", "-rf", "node_modules/.vite">>>>
                   [] OTHER ->
                         <<<<"rm", "-rf", "build">>, <<"rm", "-rf", "node_modules/.cache">>>>
           [] OTHER -> <<>>

PackageManagerNames == {"npm", "yarn", "pnpm"}

(* packageManagers[pm], for a registered pm                                *)
packageManagers(pm) ==
    [name |-> pm,
     installCommand |-> <<pm, "install">>,
     runCommand |-> IF pm = "npm" THEN <<"npm", "run">> ELSE <<pm>>]

(* cmd.startsWith(prefix).  No first word of a command of the table begins *)
(* with a package manager's name without being that name, so the test on   *)
(* characters is the test on words.                                        *)
StartsWith(cmd, prefix) ==
    Len(prefix) <= Len(cmd) /\ SubSeq(cmd, 1, Len(prefix)) = prefix

(* The result null *)
Null == <<>>

(* A lookup that takes the first variant whatever the package manager.     *)
getCommand_FirstVariant(framework, action, packageManager) ==
    LET actionCommands == frameworkCommands(framework, action)
    IN  IF actionCommands = <<>> THEN Null ELSE actionCommands[1]

(* Lines 95-116 *)
getCommand(framework, action, packageManager) ==
    LET actionCommands == frameworkCommands(framework, action)
        pmInfo == packageManagers(packageManager)
        matching == {i \in 1..Len(actionCommands) :
                        \/ StartsWith(actionCommands[i], <<pmInfo.name>>)
                        \/ StartsWith(actionCommands[i], pmInfo.runCommand)}
    IN  IF actionCommands = <<>> THEN Null
        ELSE IF packageManager \notin PackageManagerNames THEN actionCommands[1]
        ELSE IF matching # {}
             THEN actionCommands[CHOOSE i \in matching : \A j \in matching : i <= j]
             ELSE actionCommands[1]

(* Lines 118-131 *)
buildCommand(framework, action, packageManager, args) ==
    LET baseCommand == getCommand(framework, action, packageManager)
    IN  IF baseCommand = Null THEN Null
        ELSE IF args = <<>> THEN baseCommand
        ELSE baseCommand \o args

(* String.trim on the words of a text split at single spaces: an empty     *)
(* word is what lies between two adjacent spaces.                          *)
RECURSIVE TrimStart(_)
TrimStart(ws) == IF ws # <<>> /\ Head(ws) = "" THEN TrimStart(Tail(ws)) ELSE ws

RECURSIVE TrimEnd(_)
TrimEnd(ws) ==
    IF ws # <<>> /\ ws[Len(ws)] = "" THEN TrimEnd(SubSeq(ws, 1, Len(ws) - 1)) ELSE ws

Trim(ws) == TrimEnd(TrimStart(ws))

(* Lines 133-155 *)
getInstallCommand(packages, packageManager, isDev) ==
    LET pmInfo == IF packageManager \in PackageManagerNames
                  THEN packageManagers(packageManager)
                  ELSE packageManagers("npm")
        devFlag == IF isDev
                   THEN (IF packageManager = "npm" THEN "--save-dev" ELSE "--dev")
                   ELSE ""
    IN  IF packages = <<>> THEN pmInfo.installCommand
        ELSE CASE packageManager = "yarn" -> Trim(<<"yarn", "add", devFlag>> \o packages)
               [] packageManager = "pnpm" -> Trim(<<"pnpm", "add", devFlag>> \o packages)
               [] OTHER -> Trim(<<"npm", "install", devFlag>> \o packages)

(* The arguments of the calls: a framework, an action and a package        *)
(* manager the tables do not have among them.                              *)
FrameworkArgs == Frameworks \cup {"svelte"}
ActionArgs == {"install", "dev", "build", "start", "test", "lint", "typecheck",
               "clean", "deploy"}
PackageManagerArgs == PackageManagerNames \cup {"bun"}

RECURSIVE SeqsUpTo(_, _)
SeqsUpTo(S, n) ==
    IF n = 0 THEN {<<>>}
    ELSE SeqsUpTo(S, n - 1)
         \cup {Append(q, x) : q \in {p \in SeqsUpTo(S, n - 1) : Len(p) = n - 1}, x \in S}

ArgLists == SeqsUpTo({"--watch", "--fix"}, MaxArgs)
PackageLists == SeqsUpTo({"lodash", "@scope/pkg"}, MaxPackages)

CommandCalls ==
    {[fn |-> "getCommand", framework |-> fw, action |-> a, packageManager |-> pm,
      result |-> Pending] :
        fw \in FrameworkArgs, a \in ActionArgs, pm \in PackageManagerArgs}
    \cup
    {[fn |-> "buildCommand", framework |-> fw, action |-> a, packageManager |-> pm,
      args |-> args, result |-> Pending] :
        fw \in FrameworkArgs, a \in ActionArgs, pm \in PackageManagerArgs,
        args \in ArgLists}
    \cup
    {[fn |-> "getInstallCommand", packages |-> pk, packageManager |-> pm,
      isDev |-> d, result |-> Pending] :
        pk \in PackageLists, pm \in PackageManagerArgs, d \in BOOLEAN}

Returned(value) == [returned |-> TRUE, value |-> value]

Return(value) ==
    /\ ~lib.result.returned
    /\ lib' = [lib EXCEPT !.result = Returned(value)]
    /\ UNCHANGED <<provider, detected, now, session, files, inv, lastResp, reported>>

GetCommand ==
    /\ lib.fn = "getCommand"
    /\ Return(getCommand(lib.framework, lib.action, lib.packageManager))

BuildCommand ==
    /\ lib.fn = "buildCommand"
    /\ Return(buildCommand(lib.framework, lib.action, lib.packageManager, lib.args))

GetInstallCommand ==
    /\ lib.fn = "getInstallCommand"
    /\ Return(getInstallCommand(lib.packages, lib.packageManager, lib.isDev))

(* Object.entries(packageManagers): the registry in its order of insertion *)
PackageManagerOrder == <<"npm", "yarn", "pnpm">>

(* packageManagers[pm].lockFile *)
lockFile(pm) ==
    CASE pm = "npm" -> "package-lock.json"
      [] pm = "yarn" -> "yarn.lock"
      [] pm = "pnpm" -> "pnpm-lock.yaml"

(* Variant: the loop does not return at the first lock file it finds       *)
detectPackageManager_LastMatch(fileExists) ==
    LET hits == SelectSeq(PackageManagerOrder, LAMBDA pm : lockFile(pm) \in fileExists)
    IN  IF hits = <<>> THEN packageManagers("npm")
        ELSE packageManagers(hits[Len(hits)])

(* detectPackageManager(fileExists): fileExists is the set of the paths    *)
(* the callback answers true for.                                          *)
detectPackageManager(fileExists) ==
    LET hits == SelectSeq(PackageManagerOrder, LAMBDA pm : lockFile(pm) \in fileExists)
    IN  IF hits = <<>> THEN packageManagers("npm")
        ELSE packageManagers(hits[1])

(* The files of a project root the callback may be asked about             *)
RootFiles == {"package-lock.json", "yarn.lock", "pnpm-lock.yaml", "bun.lockb"}

ManagerCalls ==
    {[fn |-> "detectPackageManager", fileExists |-> fs, throws |-> {},
      result |-> Pending] :
        fs \in SUBSET RootFiles}

(* Calls whose callback throws for the paths of throws                     *)
FaultyManagerCalls ==
    {[fn |-> "detectPackageManager", fileExists |-> fs, throws |-> ts,
      result |-> Pending] :
        fs \in SUBSET RootFiles, ts \in SUBSET RootFiles}

(* The promise of a call that ended with an exception                      *)
Thrown == [returned |-> FALSE, thrown |-> TRUE]

(* The lock files the loop of lines 81-85 asks about before it returns:    *)
(* those up to the first one that exists or whose check throws.            *)
Asked(fileExists, throws) ==
    LET stops == {i \in 1..Len(PackageManagerOrder) :
                     lockFile(PackageManagerOrder[i]) \in fileExists \cup throws}
        last == IF stops = {} THEN Len(PackageManagerOrder)
                ELSE CHOOSE i \in stops : \A j \in stops : i <= j
    IN  {lockFile(PackageManagerOrder[i]) : i \in 1..last}

(* `await fileExists(pm.lockFile)` stands in no try block (lines 81-85):   *)
(* an exception of the callback ends the call.                             *)
DetectPackageManager ==
    /\ lib.fn = "detectPackageManager" /\ lib.result = Pending
    /\ IF Asked(lib.fileExists, lib.throws) \cap lib.throws # {}
       THEN /\ lib' = [lib EXCEPT !.result = Thrown]
            /\ UNCHANGED <<provider, detected, now, session, files, inv, lastResp, reported>>
       ELSE Return(detectPackageManager(lib.fileExists \ lib.throws))

(* Calls of extractPackageFromImportError: a log line of up to             *)
(* MaxLineTokens tokens.                                                   *)
MaxLineTokens == 2

LineTokens ==
    {"Module not found: Can't resolve", "Failed to resolve import", "SyntaxError:"}
    \cup ImportPaths

ExtractCalls ==
    {[fn |-> "extractPackageFromImportError", errorMessage |-> line, framework |-> fw,
      result |-> Pending] :
        line \in SeqsUpTo(LineTokens, MaxLineTokens), fw \in FrameworkArgs}

ExtractPackageFromImportError ==
    /\ lib.fn = "extractPackageFromImportError"
    /\ Return(extractPackageFromImportError(lib.errorMessage, lib.framework))

(* One pass of the loop body of monitor-dev-logs over a log line, with the *)
(* records collected before it: none, or the import error of lodash.       *)
ClassifyTokens ==
    {"Failed to resolve import", "Module not found: Can't resolve", "lodash", "./local",
     "SyntaxError:", "TS2304:", "Failed to compile", "WARN", "ready in", "listening"}

NoRecords == [errors |-> <<>>, warnings |-> <<>>, info |-> <<>>]

Collected ==
    {NoRecords,
     [NoRecords EXCEPT !.errors =
         <<[LogRecord("npm-missing", <<"Failed to resolve import", "lodash">>, StartTime)
               EXCEPT !.package = <<"lodash">>, !.file = <<"Unknown">>]>>]}

ClassifyCalls ==
    {[fn |-> "classify", line |-> line, framework |-> fw, acc |-> acc,
      result |-> Pending] :
        line \in SeqsUpTo(ClassifyTokens, MaxLineTokens), fw \in Frameworks,
        acc \in Collected}

ClassifyLine ==
    /\ lib.fn = "classify"
    /\ Return(Classify(lib.acc, lib.line, lib.framework, now))

----------------------------------------------------------------------------
(* The session controller *)

InitSession ==
    /\ detected = "vite"
    /\ now = StartTime
    /\ lastDevRestartTime = 0
    /\ devRestartInProgress = FALSE
    /\ lastOperationTime = [op \in AllOps |-> 0]
    /\ operationInProgress = [op \in AllOps |-> FALSE]
    /\ devLog = <<>>
    /\ inv = [c \in Calls |-> Idle]
    /\ lastResp = NoResp
    /\ reported = NoReport
    /\ lib = NoCall

(* restart-dev-server alone, concurrent callers *)
(* A sandbox without cache files, and one that still holds the (empty)     *)
(* caches of frameworks detected earlier.                                  *)
InitFiles == errorCache = [f \in Frameworks |-> NoFile]

InitStaleFiles ==
    errorCache \in {[f \in Frameworks |-> NoFile],
                    [f \in Frameworks |-> IF f = detected THEN NoFile
                                          ELSE CacheDoc(<<>>, <<>>)]}

InitRestart == provider \in Providers /\ InitSession /\ InitFiles

NextRestart ==
    \/ Tick(MaxTicksRestart)
    \/ \E c \in Calls : RestartSession(c)
    \/ \E c \in Calls, o \in CmdOutcomes : RestartStep(c, o)

SpecRestart == InitRestart /\ [][NextRestart]_vars

(* framework-operations alone, concurrent callers *)
InitOps == provider \in {"none", "plain"} /\ InitSession /\ InitFiles

NextOps ==
    \/ Tick(MaxTicks)
    \/ \E c \in Calls, op \in OpInputs \cup {NoOperation}, force \in BOOLEAN :
          RunOperation(c, op, force)
    \/ \E c \in Calls : RunOperationMalformed(c)
    \/ \E c \in Calls, o \in CmdOutcomes : OperationStep(c, o)

SpecOps == InitOps /\ [][NextOps]_vars

(* The same, with every await of an invocation in flight eventually        *)
(* completing (the sandbox answers every command, by a result or a throw). *)
AwaitsReturn ==
    \A c \in Calls : WF_vars(\E o \in CmdOutcomes : OperationStep(c, o))

SpecOpsLive == InitOps /\ [][NextOps]_vars /\ AwaitsReturn

(* The three entry points that launch the dev server, concurrent callers,  *)
(* no force                                                                *)
LaunchOps == {"dev", "start"}

NextLaunch ==
    \/ Tick(MaxTicks)
    \/ \E c \in Calls : RestartSession(c)
    \/ \E c \in Calls, o \in CmdOutcomes : RestartStep(c, o)
    \/ \E c \in Calls, op \in LaunchOps : RunOperation(c, op, FALSE)
    \/ \E c \in Calls, o \in CmdOutcomes : OperationStep(c, o)

SpecLaunch == InitRestart /\ [][NextLaunch]_vars

(* framework-operations alone, with a name the switch does not know *)
NextKeys ==
    \/ Tick(MaxTicks)
    \/ \E c \in Calls, op \in KeyInputs \cup {NoOperation}, force \in BOOLEAN :
          RunOperation(c, op, force)
    \/ \E c \in Calls : RunOperationMalformed(c)
    \/ \E c \in Calls, o \in CmdOutcomes : OperationStep(c, o)

SpecKeys == InitOps /\ [][NextKeys]_vars

(* The error-cache routes, one caller at a time *)
InitErrors == provider \in {"none", "plain"} /\ InitSession /\ InitStaleFiles

NextErrors ==
    \/ \E c \in Sequential, req \in Requests : ReportError(c, req)
    \/ \E c \in Sequential, o \in CmdOutcomes : ReportStep(c, o)
    \/ \E c \in Sequential : MonitorLogs(c)
    \/ \E c \in Sequential, o \in CmdOutcomes : MonitorStep(c, o)
    \/ \E c \in Sequential : ClearErrorCache(c)
    \/ \E c \in Sequential, o \in CmdOutcomes : ClearStep(c, o)

SpecErrors == InitErrors /\ [][NextErrors]_vars

(* report-dev-error alone, concurrent callers that report errors whose     *)
(* text has no quote character                                             *)
PlainReports ==
    {[error |-> m, file |-> p.file, line |-> p.line] :
        m \in {<<"a">>, <<"a", "a">>}, p \in Places}

InitReports == provider = "plain" /\ InitSession /\ InitFiles

NextReports ==
    \/ \E c \in Calls, req \in PlainReports : ReportError(c, req)
    \/ \E c \in Calls, o \in CmdOutcomes : ReportStep(c, o)

SpecReports == InitReports /\ [][NextReports]_vars

(* The restart and operations routes together *)
Init == provider \in Providers /\ InitSession /\ InitFiles

Next ==
    \/ Tick(MaxTicks)
    \/ \E c \in 1..MaxCallsBoth : RestartSession(c)
    \/ \E c \in Calls, o \in CmdOutcomes : RestartStep(c, o)
    \/ \E c \in 1..MaxCallsBoth, op \in OpInputs \cup {NoOperation}, force \in BOOLEAN :
          RunOperation(c, op, force)
    \/ \E c \in 1..MaxCallsBoth : RunOperationMalformed(c)
    \/ \E c \in Calls, o \in CmdOutcomes : OperationStep(c, o)

Spec == Init /\ [][Next]_vars

(* The restart and operations routes, one caller at a time, with the       *)
(* operation names of KeyInputs                                            *)
NextGates ==
    \/ Tick(MaxTicks)
    \/ \E c \in Sequential : RestartSession(c)
    \/ \E c \in Sequential, o \in CmdOutcomes : RestartStep(c, o)
    \/ \E c \in Sequential, op \in KeyInputs, force \in BOOLEAN : RunOperation(c, op, force)
    \/ \E c \in Sequential, o \in CmdOutcomes : OperationStep(c, o)

SpecGates == Init /\ [][NextGates]_vars

(* All five routes, one caller at a time, with one operation to run and    *)
(* one error to report                                                     *)
PlainRequests == {r \in Requests : r.error \in {NoText, <<"a">>} /\ r.file = NoText}

NextAll ==
    \/ Tick(MaxTicks)
    \/ \E c \in Sequential : RestartSession(c)
    \/ \E c \in Sequential, o \in CmdOutcomes : RestartStep(c, o)
    \/ \E c \in Sequential, op \in {"status", NoOperation}, force \in BOOLEAN :
          RunOperation(c, op, force)
    \/ \E c \in Sequential : RunOperationMalformed(c)
    \/ \E c \in Sequential, o \in CmdOutcomes : OperationStep(c, o)
    \/ \E c \in Sequential, req \in PlainRequests : ReportError(c, req)
    \/ \E c \in Sequential, o \in CmdOutcomes : ReportStep(c, o)
    \/ \E c \in Sequential : MonitorLogs(c)
    \/ \E c \in Sequential, o \in CmdOutcomes : MonitorStep(c, o)
    \/ \E c \in Sequential : ClearErrorCache(c)
    \/ \E c \in Sequential, o \in CmdOutcomes : ClearStep(c, o)

SpecAll == Init /\ [][NextAll]_vars

(* The error-cache routes, one caller at a time, with one error to report  *)
NextCache ==
    \/ \E c \in Sequential, req \in PlainRequests : ReportError(c, req)
    \/ \E c \in Sequential, o \in CmdOutcomes : ReportStep(c, o)
    \/ \E c \in Sequential : MonitorLogs(c)
    \/ \E c \in Sequential, o \in CmdOutcomes : MonitorStep(c, o)
    \/ \E c \in Sequential : ClearErrorCache(c)
    \/ \E c \in Sequential, o \in CmdOutcomes : ClearStep(c, o)

SpecCache == InitErrors /\ [][NextCache]_vars

(* The functions of src/lib, each called once with arguments of the model  *)
InitLibrary ==
    /\ provider = "none" /\ InitFiles
    /\ detected = "vite"
    /\ now = StartTime
    /\ lastDevRestartTime = 0
    /\ devRestartInProgress = FALSE
    /\ lastOperationTime = [op \in AllOps |-> 0]
    /\ operationInProgress = [op \in AllOps |-> FALSE]
    /\ devLog = <<>>
    /\ inv = [c \in Calls |-> Idle]
    /\ lastResp = NoResp
    /\ reported = NoReport

InitDetect == InitLibrary /\ lib \in DetectCalls

NextDetect == DetectFramework

SpecDetect == InitDetect /\ [][NextDetect]_vars

InitFaults == InitLibrary /\ lib \in FaultyCalls

NextFaults == DetectFramework

SpecFaults == InitFaults /\ [][NextFaults]_vars

InitManagers == InitLibrary /\ lib \in FaultyManagerCalls

NextManagers == DetectPackageManager

SpecManagers == InitManagers /\ [][NextManagers]_vars

InitCommands == InitLibrary /\ lib \in CommandCalls \cup ManagerCalls

NextCommands ==
    \/ GetCommand
    \/ BuildCommand
    \/ GetInstallCommand
    \/ DetectPackageManager

SpecCommands == InitCommands /\ [][NextCommands]_vars

(* monitor-dev-logs over the output of a running dev server, one caller   *)
(* at a time; the cache is absent or holds ten reported errors.            *)
InitMonitor ==
    /\ provider = "plain" /\ InitSession
    /\ \E doc \in {NoFile, CacheDoc(StoredErrors(MaxMonitorErrors), <<>>)} :
          errorCache = [f \in Frameworks |-> IF f = detected THEN doc ELSE NoFile]

NextMonitor ==
    \/ Tick(MaxTicks)
    \/ \E line \in ServerLines : ServerLogs(line)
    \/ \E c \in Sequential : MonitorLogs(c)
    \/ \E c \in Sequential, o \in CmdOutcomes : MonitorStep(c, o)

SpecMonitor == InitMonitor /\ [][NextMonitor]_vars

(* clearErrorCache and monitorLogs, one caller at a time: every monitorLogs *)
(* call follows a clearErrorCache call that answered, and the server       *)
(* prints nothing between that answer and the answer of monitorLogs.       *)
QuietServerLogs(line) ==
    /\ lastResp.tag # "cleared"
    /\ \A c \in Calls : inv[c].kind # "monitor"
    /\ ServerLogs(line)

MonitorAfterClear(c) == lastResp.tag = "cleared" /\ MonitorLogs(c)

NextClear ==
    \/ \E line \in ServerLines : QuietServerLogs(line)
    \/ \E c \in Sequential : ClearErrorCache(c)
    \/ \E c \in Sequential, o \in CmdOutcomes : ClearStep(c, o)
    \/ \E c \in Sequential : MonitorAfterClear(c)
    \/ \E c \in Sequential, o \in CmdOutcomes : MonitorStep(c, o)

SpecClear == InitMonitor /\ [][NextClear]_vars

(* monitor-dev-logs over the output of a dev server whose messages quote   *)
(* names between single quotes, one caller at a time                       *)
QuotedLines ==
    {<<"SyntaxError:", "'">>, <<"SyntaxError:", "'", "'">>, <<"WARN">>, <<"ready in">>}

NextQuoted ==
    \/ \E line \in QuotedLines : ServerLogs(line)
    \/ \E c \in Sequential : MonitorLogs(c)
    \/ \E c \in Sequential, o \in CmdOutcomes : MonitorStep(c, o)

SpecQuoted == InitMonitor /\ [][NextQuoted]_vars

(* check-dev-errors and monitor-dev-logs over the output of a running dev *)
(* server, one caller at a time; the cache is absent or holds the twenty   *)
(* errors that reportError keeps.                                          *)
InitCheck ==
    /\ provider = "plain" /\ InitSession
    /\ \E doc \in {NoFile, CacheDoc(StoredErrors(MaxCachedErrors), <<>>)} :
          errorCache = [f \in Frameworks |-> IF f = detected THEN doc ELSE NoFile]

NextCheck ==
    \/ \E line \in ServerLines : ServerLogs(line)
    \/ \E c \in Sequential : CheckDevErrors(c)
    \/ \E c \in Sequential, o \in CmdOutcomes : CheckStep(c, o)
    \/ \E c \in Sequential : MonitorLogs(c)
    \/ \E c \in Sequential, o \in CmdOutcomes : MonitorStep(c, o)

SpecCheck == InitCheck /\ [][NextCheck]_vars

(* The handlers that write or read the dev log, one caller at a time, in   *)
(* a project of any registered framework                                  *)
InitLogs ==
    /\ provider = "plain" /\ InitFiles
    /\ detected \in Frameworks
    /\ now = StartTime
    /\ lastDevRestartTime = 0
    /\ devRestartInProgress = FALSE
    /\ lastOperationTime = [op \in AllOps |-> 0]
    /\ operationInProgress = [op \in AllOps |-> FALSE]
    /\ devLog = <<>>
    /\ inv = [c \in Calls |-> Idle]
    /\ lastResp = NoResp
    /\ reported = NoReport
    /\ lib = NoCall

NextLogs ==
    \/ Tick(MaxTicks)
    \/ \E c \in Sequential : RestartSession(c)
    \/ \E c \in Sequential, o \in CmdOutcomes : RestartStep(c, o)
    \/ \E c \in Sequential : RunOperation(c, "dev", FALSE)
    \/ \E c \in Sequential, o \in CmdOutcomes : OperationStep(c, o)
    \/ \E c \in Sequential, req \in PlainRequests : ReportError(c, req)
    \/ \E c \in Sequential, o \in CmdOutcomes : ReportStep(c, o)
    \/ \E c \in Sequential : MonitorLogs(c)
    \/ \E c \in Sequential, o \in CmdOutcomes : MonitorStep(c, o)

SpecLogs == InitLogs /\ [][NextLogs]_vars

InitClassify == InitLibrary /\ lib \in ClassifyCalls

NextClassify == ClassifyLine

SpecClassify == InitClassify /\ [][NextClassify]_vars

InitExtract == InitLibrary /\ lib \in ExtractCalls

NextExtract == ExtractPackageFromImportError

SpecExtract == InitExtract /\ [][NextExtract]_vars

----------------------------------------------------------------------------
(* Properties of the session controller *)

Bound == provider # "none"

RestartThrottled(tag) ==
    /\ lastResp'.kind = "restart" /\ lastResp'.tag = tag
    /\ lastResp'.status = 200 /\ lastResp'.success
    /\ UNCHANGED <<session, inv>>

OperationThrottled(op, tag) ==
    /\ lastResp'.kind = "op" /\ lastResp'.op = op /\ lastResp'.tag = tag
    /\ lastResp'.status = 200 /\ lastResp'.success
    /\ UNCHANGED <<session, inv>>

(* C1: restart is single-flight.  A restartSession call that arrives while *)
(* an earlier invocation is inside the restart body gets the "already in   *)
(* progress" success answer, issues no sandbox command and changes no      *)
(* session state; at most one invocation is ever inside the restart body.  *)
C1_RestartSingleFlight ==
    /\ [](Cardinality(InFlight("restart")) <= 1)
    /\ [][\A c \in Calls :
            (RestartSession(c) /\ Bound /\ InFlight("restart") # {})
               => RestartThrottled("in-progress")]_vars

C1_Witness ==
    /\ lastResp.kind = "restart" /\ lastResp.tag = "in-progress"
    /\ \E c \in Calls : inv[c].kind = "restart" /\ inv[c].cmds # <<>>

(* C2: once a restart has completed successfully, every restartSession     *)
(* call made less than 5 s later gets the cooldown success answer, issues  *)
(* no command (no kill, no start) and leaves lastDevRestartTime and the    *)
(* in-progress flag as they are.                                           *)
C2_RestartCooldown ==
    [][\A c \in Calls :
          (RestartSession(c) /\ Bound /\ lastDevRestartTime # 0
             /\ now - lastDevRestartTime < RESTART_COOLDOWN_MS)
            => RestartThrottled("cooldown")]_vars

C2_Witness ==
    /\ lastResp.kind = "restart" /\ lastResp.tag = "cooldown"
    /\ lastDevRestartTime # 0 /\ now > lastDevRestartTime

(* C3: an invocation that set an in-progress flag clears it however it     *)
(* ends: whenever no invocation of restart (of a generic operation) is     *)
(* executing, the restart flag (that operation's flag) is false.           *)
C3_FlagsClearedOnEveryExit ==
    /\ InFlight("restart") = {} => ~devRestartInProgress
    /\ \A op \in AllOps : Running(op) = {} => ~operationInProgress[op]

(* C4: when a restart fails with an exception after it set the flag, the   *)
(* flag is cleared and lastDevRestartTime keeps its value, so that a       *)
(* restartSession call that follows immediately is not throttled and runs  *)
(* the restart sequence.                                                   *)
C4_FailedRestartAllowsRetry ==
    /\ [][(lastResp'.kind = "restart" /\ lastResp'.status = 500)
            => /\ ~devRestartInProgress'
               /\ lastDevRestartTime' = lastDevRestartTime]_vars
    /\ [][\A c \in Calls :
            (RestartSession(c) /\ lastResp.kind = "restart" /\ lastResp.status = 500)
               => /\ inv'[c].kind = "restart" /\ inv'[c].pc = 1
                  /\ devRestartInProgress']_vars

C4_Witness ==
    /\ lastResp.kind = "restart" /\ lastResp.status = 500
    /\ lastDevRestartTime # 0

(* C5: a runOperation call without force that arrives while another        *)
(* invocation of the same operation name is executing gets the "already    *)
(* in progress" success answer and issues no command, for every operation  *)
(* name the route dispatches on, status included.                          *)
C5_OperationSingleFlight ==
    [][\A c \in Calls, op \in OpInputs :
          (RunOperation(c, op, FALSE) /\ Bound /\ Running(op) # {})
            => OperationThrottled(op, "in-progress")]_vars

(* C6 as stated: a call without force for an operation other than status,  *)
(* health and logs, less than 3 s after that operation's last-executed     *)
(* timestamp, gets the cooldown answer and issues no command; status,      *)
(* health and logs are never throttled by cooldown; a call with force      *)
(* passes both gates.                                                      *)
CooldownApplies(op) ==
    /\ op \notin ReadOnlyOps
    /\ now - lastOperationTime[op] < OPERATION_COOLDOWN_MS

ReadOnlyNeverCooldown ==
    \A c \in Calls, op \in OpInputs \cap ReadOnlyOps, force \in BOOLEAN :
        RunOperation(c, op, force) => lastResp'.tag # "cooldown"

ForcePassesGates ==
    \A c \in Calls, op \in OpInputs :
        (RunOperation(c, op, TRUE) /\ Bound)
          => /\ inv'[c].kind = "op" /\ inv'[c].op = op /\ inv'[c].pc = 1
             /\ operationInProgress'[op]

C6_OperationCooldown_Original ==
    [][/\ \A c \in Calls, op \in OpInputs :
            (RunOperation(c, op, FALSE) /\ Bound /\ CooldownApplies(op))
              => OperationThrottled(op, "cooldown")
       /\ ReadOnlyNeverCooldown
       /\ ForcePassesGates]_vars

(* C6 as amended: ... gets the cooldown answer, or the "already in         *)
(* progress" answer when that operation's in-progress flag is set (the     *)
(* flag is tested first), and in both cases issues no command; status,     *)
(* health and logs are never throttled by cooldown; a call with force      *)
(* passes both gates.                                                      *)
C6_OperationCooldown ==
    [][/\ \A c \in Calls, op \in OpInputs :
            (RunOperation(c, op, FALSE) /\ Bound /\ CooldownApplies(op))
              => OperationThrottled(op, IF operationInProgress[op]
                                        THEN "in-progress" ELSE "cooldown")
       /\ ReadOnlyNeverCooldown
       /\ ForcePassesGates]_vars

C6_Witness ==
    /\ lastResp.kind = "op" /\ lastResp.tag = "cooldown" /\ lastResp.op = "build"
    /\ lastOperationTime["build"] # 0
    /\ lastOperationTime["status"] # 0

(* C7: gates are keyed per operation name.  An invocation of operation A   *)
(* is not skipped when A's own flag is clear and A's own cooldown is over, *)
(* whatever the flag and timestamp of another operation B are, and no step *)
(* of an invocation of A changes B's flag or B's timestamp.                *)
OthersUnchanged(a) ==
    \A b \in AllOps \ {a} :
        /\ operationInProgress'[b] = operationInProgress[b]
        /\ lastOperationTime'[b] = lastOperationTime[b]

C7_GatesKeyedPerOperation ==
    [][/\ \A c \in Calls, a \in KeyInputs, force \in BOOLEAN :
            RunOperation(c, a, force)
              => /\ OthersUnchanged(a)
                 /\ (Bound /\ ~operationInProgress[a] /\ ~CooldownApplies(a))
                       => inv'[c].kind = "op"
       /\ \A c \in Calls, o \in CmdOutcomes :
            OperationStep(c, o) => OthersUnchanged(inv[c].op)]_vars

(* C8: with no sandbox handle bound, every operation (restartSession,      *)
(* runOperation, monitorLogs, reportError, clearErrorCache) ends with the  *)
(* "no active sandbox" failure, starts no invocation (so that no sandbox   *)
(* command is issued) and leaves the session state and the sandbox's files *)
(* unchanged.                                                              *)
Rejected(kind) ==
    /\ lastResp'.kind = kind /\ lastResp'.tag = "no-sandbox"
    /\ lastResp'.status = 400 /\ ~lastResp'.success
    /\ UNCHANGED <<session, files, inv>>

C8_NoSandbox ==
    /\ [](provider = "none" => \A c \in Calls : inv[c] = Idle)
    /\ [][provider = "none" => \A c \in Calls :
            /\ RestartSession(c) => Rejected("restart")
            /\ \A op \in KeyInputs \cup {NoOperation}, force \in BOOLEAN :
                  RunOperation(c, op, force) => Rejected("op")
            /\ RunOperationMalformed(c) => Rejected("op")
            /\ MonitorLogs(c) => Rejected("monitor")
            /\ \A req \in Requests : ReportError(c, req) => Rejected("report")
            /\ ClearErrorCache(c) => Rejected("clear")]_vars

C8_Witness ==
    /\ provider = "none"
    /\ lastResp.kind = "clear" /\ lastResp.tag = "no-sandbox" /\ lastResp.status = 400

(* C9 as stated: with a bound sandbox, a failure of the operation (a       *)
(* command that exits non-zero, a provider call that throws) is returned   *)
(* as data and never as a failed call.                                     *)
Responds == lastResp' # NoResp

C9_FailuresAreData_Original ==
    [][\A c \in Calls, o \in {"nonzero", "throwError"} :
          ((RestartStep(c, o) \/ OperationStep(c, o)) /\ Responds)
            => lastResp'.status = 200]_vars

(* C9 as amended: in runOperation a command that exits non-zero, or a      *)
(* provider call that throws an Error inside the switch, is returned as    *)
(* data in a status-200 result (exitCode, or success = false with the      *)
(* error); in restartSession a non-zero exit is ignored (the call reports  *)
(* success) but a throw of the provider's restart or of the start command  *)
(* is answered with an explicit failure (status 500, success = false);     *)
(* the other explicit failures with a bound sandbox are a request without  *)
(* operation (400), a request body that is not JSON (500) and, in          *)
(* runOperation, a rejection with a value that has no message (500).       *)
FatalIn(plan, r, o) == plan[r.pc].t = "cmd" /\ ~plan[r.pc].tol /\ Throws(o)

C9_FailuresAreData ==
    /\ [][\A c \in Calls, o \in CmdOutcomes :
            (OperationStep(c, o) /\ Responds)
              => LET e == OperationPlan(inv[c].op, detected)[inv[c].pc] IN
                 IF FatalIn(OperationPlan(inv[c].op, detected), inv[c], o)
                 THEN IF o = "throwError"
                      THEN /\ lastResp'.status = 200 /\ lastResp'.tag = "result"
                           /\ ~lastResp'.success /\ lastResp'.error = "exception"
                      ELSE lastResp'.status = 500 /\ ~lastResp'.success
                 ELSE /\ lastResp'.status = 200 /\ lastResp'.tag = "result"
                      /\ (o = "nonzero" /\ e.cap = "exit") => lastResp'.exit = "nonzero"]_vars
    /\ [][\A c \in Calls, o \in CmdOutcomes :
            (RestartStep(c, o) /\ Responds)
              => IF FatalIn(RestartPlan(provider), inv[c], o)
                 THEN lastResp'.status = 500 /\ ~lastResp'.success
                 ELSE lastResp'.status = 200 /\ lastResp'.tag = "restarted"]_vars
    /\ [](lastResp.status \in {400, 500} /\ lastResp.tag # "no-sandbox"
            => \/ lastResp.tag = "operation-required" /\ lastResp.op = NoOperation
               \/ lastResp.status = 500 /\ lastResp.tag \in {"error", "unhandled"})

C9_Witness ==
    /\ lastResp.kind = "op" /\ lastResp.status = 200 /\ ~lastResp.success
    /\ lastResp.error = "exception" /\ lastResp.op = "build"

(* C10: reportError is idempotent on (message, file, line).  When a        *)
(* reportError call completes right after another reportError call with    *)
(* the same message, file and line (no other handler has written the cache *)
(* in between, and every sandbox command of both calls succeeded), it      *)
(* answers isDuplicate = true and the same totalErrors as the first call,  *)
(* and the cached errors sequence is what the first call left.             *)
SameError(a, b) == a.error = b.error /\ a.file = b.file /\ a.line = b.line

C10_ReportIdempotent ==
    [][\A c \in Calls :
          (/\ ReportStep(c, "ok") /\ Responds /\ ~inv[c].faults
           /\ reported.made /\ ~reported.faults
           /\ SameError(inv[c].req, reported.req))
            => /\ lastResp'.isDuplicate
               /\ lastResp'.totalErrors = reported.totalErrors
               /\ errorCache'[detected].errors = reported.errors]_vars

----------------------------------------------------------------------------
(* Properties of the error cache *)

(* The step of a handler of the given kind at the await named name.        *)
AtCommand(c, kind, plan, name) ==
    /\ inv[c].kind = kind
    /\ plan[inv[c].pc].name = name

(* C11: the cache keeps the last 20 distinct errors, in report order.      *)
(* Stated for one report, from which the statement for n reports from an   *)
(* empty cache follows by induction: when a report of an error that is not *)
(* in the cache writes the cache, with every command of the invocation     *)
(* succeeding, the persisted errors are the last 20 of the errors persisted*)
(* before followed by the new error.                                       *)
C11_CacheKeepsLast20 ==
    [][\A c \in Calls :
          (/\ AtCommand(c, "report", ReportPlan, "writeCache")
           /\ ReportStep(c, "ok")
           /\ ~inv[c].faults /\ ~inv[c].isDuplicate)
            => errorCache'[detected].errors =
                  LastN(Append(errorCache[detected].errors,
                               ErrorObj(inv[c].req, inv[c].stamp)),
                        MaxCachedErrors)]_vars

KeysUnique(errors) ==
    \A i, j \in 1..Len(errors) : ErrorKey(errors[i]) = ErrorKey(errors[j]) => i = j

(* C12: no two error records of a persisted cache have the same            *)
(* duplicate-suppression key (category, package name or else message).     *)
C12_CacheKeysUnique ==
    \A f \in Frameworks : KeysUnique(errorCache[f].errors)

(* C13: when clearErrorCache completes with every command succeeding, the  *)
(* detected framework's cache file holds an empty errors and an empty      *)
(* warnings sequence, no other framework has a cache file, and             *)
(* clearedFiles names the cache file of every framework, the detected      *)
(* one first.                                                              *)
C13_ClearLeavesFreshCache ==
    [][\A c \in Calls :
          (/\ AtCommand(c, "clear", ClearPlan(detected), "writeFresh")
           /\ ClearStep(c, "ok")
           /\ ~inv[c].faults)
            => /\ errorCache'[detected] = CacheDoc(<<>>, <<>>)
               /\ \A f \in Frameworks \ {detected} : ~errorCache'[f].exists
               /\ lastResp'.kind = "clear" /\ lastResp'.status = 200
               /\ lastResp'.clearedFiles =
                     <<CacheFile(detected)>>
                     \o [i \in 1..(Len(allFrameworks) - 1) |-> CacheFile(SelectSeq(allFrameworks,
                                            LAMBDA f : f # detected)[i])]]_vars

(* A clear that answered with three cleared files, after an error had been *)
(* reported and logged.                                                    *)
C13_Witness ==
    /\ lastResp.kind = "clear" /\ lastResp.status = 200
    /\ Len(lastResp.clearedFiles) = Len(allFrameworks)
    /\ errorCache[detected] = CacheDoc(<<>>, <<>>)
    /\ devLog # <<>>

(* C14: cache round trip.  Whenever reportError or monitorLogs writes the  *)
(* cache document, the file read back holds exactly the errors and         *)
(* warnings that were written, whatever text the messages contain.         *)
C14_CacheRoundTrip ==
    [][\A c \in Calls :
          /\ (AtCommand(c, "report", ReportPlan, "writeCache") /\ ReportStep(c, "ok"))
                => errorCache'[detected] = CacheDoc(inv[c].errors, <<>>)
          /\ (AtCommand(c, "monitor", MonitorPlan(detected), "writeCache")
                /\ MonitorStep(c, "ok"))
                => errorCache'[detected] = CacheDoc(UniqueErrors(inv[c].errors),
                                                   UniqueWarnings(inv[c].warnings))]_vars

----------------------------------------------------------------------------
(* Properties of the detector *)

Detected == lib.fn = "detectFramework" /\ lib.result.returned

(* The signals of the call that belong to framework fw alone: a declared   *)
(* name of its dependency lists, one of its config files, its process.     *)
OwnSignals(fw) ==
    SelectSeq(Evidence(fw, lib.packageJson, lib.fileExists, lib.runCommand),
              LAMBDA sig : sig.kind # "script")

NoSignalAtAll ==
    \A fw \in Frameworks :
        Evidence(fw, lib.packageJson, lib.fileExists, lib.runCommand) = <<>>

(* C15: detect never fails.  Every call returns a DetectionResult, and a   *)
(* call in which no signal matches any framework (in particular one        *)
(* without manifest, fileExists and runCommand) returns the fallback:      *)
(* framework vite, confidence 0, exactly one evidence string.              *)
C15_DetectNeverFails ==
    lib.fn = "detectFramework" =>
        LET r == detectFramework(lib.packageJson, lib.fileExists, lib.runCommand)
        IN  /\ r.returned
            /\ r.framework \in Frameworks
            /\ r.confidence \in 0..FullScore
            /\ NoSignalAtAll =>
                  /\ r.framework = "vite"
                  /\ r.confidence = 0
                  /\ Len(r.evidence) = 1
            /\ Detected => lib.result = r

C15_Witness ==
    /\ Detected
    /\ ~lib.packageJson.present /\ ~lib.fileExists.present /\ ~lib.runCommand.present
    /\ lib.result.framework = "vite" /\ lib.result.confidence = 0

HasPrimaryDependency(fw) ==
    /\ lib.packageJson.present
    /\ \E i \in 1..Len(dependencies(fw)) : dependencies(fw)[i] \in lib.packageJson.deps

(* C16: when the manifest declares a primary dependency of a framework F   *)
(* and the project shows no signal of any other framework, detect returns  *)
(* F with confidence at least 0.3.                                         *)
C16_PrimaryDependencySelects ==
    \A F \in Frameworks :
        (/\ Detected
         /\ HasPrimaryDependency(F)
         /\ \A G \in Frameworks \ {F} : OwnSignals(G) = <<>>)
          => /\ lib.result.framework = F
             /\ lib.result.confidence >= DepWeight

(* Create React App selected on its dependency while the manifest's dev    *)
(* and build scripts count for the two other frameworks.                   *)
C16_Witness ==
    /\ Detected
    /\ HasPrimaryDependency("cra")
    /\ lib.packageJson.scripts = ScriptNames
    /\ \A G \in Frameworks \ {"cra"} : OwnSignals(G) = <<>>
    /\ lib.result.framework = "cra"

Declares(name) == lib.packageJson.present /\ name \in lib.packageJson.deps

HasConfigOf(fw) ==
    /\ lib.fileExists.present
    /\ \E i \in 1..Len(configFiles(fw)) : configFiles(fw)[i] \in lib.fileExists.found

(* C17: a framework returned with confidence greater than 0 shows its      *)
(* documented identifying signal: nextjs the `next` dependency or a        *)
(* next.config.* file, vite the `vite` dependency or a vite.config.* file, *)
(* cra the `react-scripts` dependency.                                     *)
(* A Create React App manifest, returned as nextjs.                         *)
C17_CreateReactApp ==
    /\ Detected
    /\ lib.packageJson.deps = {"react", "react-dom", "react-scripts"}
    /\ lib.packageJson.scripts = {}
    /\ ~lib.fileExists.present /\ ~lib.runCommand.present

C17_DocumentedSignal ==
    (Detected /\ lib.result.confidence > 0) =>
        CASE lib.result.framework = "nextjs" -> Declares("next") \/ HasConfigOf("nextjs")
          [] lib.result.framework = "vite" -> Declares("vite") \/ HasConfigOf("vite")
          [] OTHER -> Declares("react-scripts")

----------------------------------------------------------------------------
(* Properties of the command resolver *)

Resolved(fn) == lib.fn = fn /\ lib.result.returned

NoVariants == frameworkCommands(lib.framework, lib.action) = <<>>

MatchesManager(cmd, pm) ==
    /\ pm \in PackageManagerNames
    /\ \/ cmd[1] = pm
       \/ (pm = "npm" /\ Len(cmd) >= 2 /\ cmd[1] = "npm" /\ cmd[2] = "run")

(* What the claim says getCommand returns for the call in lib.             *)
ExpectedCommand ==
    LET variants == frameworkCommands(lib.framework, lib.action)
        hits == {i \in 1..Len(variants) : MatchesManager(variants[i], lib.packageManager)}
    IN  IF hits = {} THEN variants[1]
        ELSE variants[CHOOSE i \in hits : \A j \in hits : i <= j]

(* C18: getCommand returns null exactly when the framework is unregistered *)
(* or the action has no variants; otherwise the first variant that starts  *)
(* with the package manager's name or run-command prefix, and the first    *)
(* variant when none does or the package manager is unknown.  buildCommand *)
(* returns null under the same condition and otherwise that command        *)
(* followed by the arguments.                                              *)
C18_GetCommand ==
    /\ Resolved("getCommand") =>
          /\ (lib.result.value = Null) <=> (lib.framework \notin Frameworks \/ NoVariants)
          /\ ~NoVariants => lib.result.value = ExpectedCommand
          /\ (lib.framework = "nextjs" /\ lib.action = "dev" /\ lib.packageManager = "yarn")
                => lib.result.value = <<"yarn", "dev">>
          /\ (lib.framework = "nextjs" /\ lib.action = "test" /\ lib.packageManager = "bun")
                => lib.result.value = <<"npm", "test">>
    /\ Resolved("buildCommand") =>
          /\ (lib.result.value = Null) <=> (lib.framework \notin Frameworks \/ NoVariants)
          /\ ~NoVariants => lib.result.value = ExpectedCommand \o lib.args

(* Create React App built with pnpm, for which the table has no variant,   *)
(* with two arguments.                                                     *)
C18_Witness ==
    /\ Resolved("buildCommand")
    /\ lib.framework = "cra" /\ lib.action = "build" /\ lib.packageManager = "pnpm"
    /\ Len(lib.args) = 2
    /\ lib.result.value = <<"npm", "run", "build">> \o lib.args

(* The words the shell makes of a command text: runs of spaces separate.   *)
ShellWords(ws) == SelectSeq(ws, LAMBDA w : w # "")

(* C19: getInstallCommand returns the package manager's bare install       *)
(* command for no packages (npm's for an unknown package manager); for     *)
(* packages it returns `<pm> add` for yarn and pnpm and `npm install` for  *)
(* any other package manager, then a dev flag only when isDev, then the    *)
(* packages, the dev flag of the install form being --save-dev.            *)
C19_GetInstallCommand ==
    Resolved("getInstallCommand") =>
        LET pm == lib.packageManager
            add == pm \in {"yarn", "pnpm"}
            head == IF add THEN <<pm, "add">> ELSE <<"npm", "install">>
            flag == IF ~lib.isDev THEN <<>>
                    ELSE IF add THEN <<"--dev">> ELSE <<"--save-dev">>
        IN  IF lib.packages = <<>>
            THEN lib.result.value =
                    <<IF pm \in PackageManagerNames THEN pm ELSE "npm", "install">>
            ELSE ShellWords(lib.result.value) = head \o flag \o lib.packages

----------------------------------------------------------------------------
(* Properties of the import-error helper *)

(* The line of the call is the framework's import-error phrase followed by *)
(* the path.                                                               *)
ImportErrorOf(path) ==
    /\ lib.framework \in Frameworks
    /\ lib.errorMessage = <<ImportPhrase(lib.framework), path>>

HasImportError ==
    \E i \in 1..(Len(lib.errorMessage) - 1) :
        /\ lib.errorMessage[i] = ImportPhrase(lib.framework)
        /\ lib.errorMessage[i + 1] \in ImportPaths

(* C20: extractPackageFromImportError returns no package for an            *)
(* unregistered framework, for a line that does not match the framework's  *)
(* import-error pattern and for a relative import path; for a scoped path  *)
(* it returns the first two path segments, otherwise the first segment.    *)
C20_ExtractPackage ==
    Resolved("extractPackageFromImportError") =>
        /\ lib.framework \notin Frameworks => lib.result.value = NoText
        /\ ~HasImportError => lib.result.value = NoText
        /\ (ImportErrorOf("./local") \/ ImportErrorOf("../up")) => lib.result.value = NoText
        /\ ImportErrorOf("@scope/pkg/sub") => lib.result.value = <<"@scope", "pkg">>
        /\ ImportErrorOf("@scope/pkg") => lib.result.value = <<"@scope", "pkg">>
        /\ ImportErrorOf("@scope") => lib.result.value = <<"@scope">>
        /\ ImportErrorOf("lodash/fp") => lib.result.value = <<"lodash">>
        /\ ImportErrorOf("lodash") => lib.result.value = <<"lodash">>

(* The scoped path of a Next.js line reduced to scope and name.            *)
C20_Witness ==
    /\ Resolved("extractPackageFromImportError")
    /\ lib.framework = "nextjs"
    /\ lib.errorMessage = <<"Module not found: Can't resolve", "@scope/pkg/sub">>
    /\ lib.result.value = <<"@scope", "pkg">>

(* C21: detectPackageManager returns the package manager whose lock file   *)
(* exists (package-lock.json: npm, yarn.lock: yarn, pnpm-lock.yaml: pnpm), *)
(* the first of npm, yarn, pnpm when several exist, and npm when none      *)
(* does.                                                                   *)
C21_DetectPackageManager ==
    (Resolved("detectPackageManager")) =>
        LET fs == lib.fileExists
            expected == IF "package-lock.json" \in fs THEN "npm"
                        ELSE IF "yarn.lock" \in fs THEN "yarn"
                        ELSE IF "pnpm-lock.yaml" \in fs THEN "pnpm"
                        ELSE "npm"
        IN  /\ lib.result.value.name = expected
            /\ lib.result.value = packageManagers(expected)

(* yarn.lock and pnpm-lock.yaml both exist, and yarn is returned           *)
C21_Witness ==
    /\ Resolved("detectPackageManager")
    /\ lib.fileExists = {"yarn.lock", "pnpm-lock.yaml"}
    /\ lib.result.value.name = "yarn"

(* C22: no text of a caller reaches a shell command of the sandbox without *)
(* being sanitised: the cache document and the log line that reportError   *)
(* pastes between single quotes of an echo command hold no quote character *)
(* of the reported message or file.                                        *)
C22_CallerTextSanitised ==
    \A c \in Calls :
        /\ AtCommand(c, "report", ReportPlan, "writeCache") =>
               SeqQuotes(inv[c].errors) = 0
        /\ AtCommand(c, "report", ReportPlan, "appendLog") =>
               Quotes(LogEntry(inv[c].req)) = 0

(* The command or delay that a step of restart invocation c completes      *)
RestartAwait(c) == RestartPlan(provider)[inv[c].pc]

Kills(n) == [i \in 1..n |-> "kill"]

(* C23: within a restart that passed the gates the flag is set, detection  *)
(* comes first, then either the provider's own restart alone, or the kill  *)
(* commands, all of them whatever their outcome, then the cache reset,     *)
(* then the start command; the restart time is recorded and the flag is    *)
(* cleared only in or after the start step.                                *)
C23_RestartOrder ==
    [][\A c \in Calls :
          (inv[c].kind = "restart" /\ inv'[c] # inv[c]) =>
             LET e == RestartAwait(c)
                 h == inv[c].cmds
                 started == e.name \in {"start", "restartDevServer"} \/
                            (e.t = "delay" /\ h # <<>> /\ h[Len(h)] = "start")
             IN  /\ devRestartInProgress
                 /\ e.name = "detect" => h = <<>>
                 /\ e.name = "restartDevServer" =>
                        provider = "native" /\ h = <<"detect">>
                 /\ provider = "native" =>
                        e.name \in {"detect", "restartDevServer"}
                 /\ e.name = "kill" =>
                        /\ \E n \in 0..3 : h = <<"detect">> \o Kills(n)
                        /\ inv'[c].kind = "restart"
                        /\ inv'[c].cmds = Append(h, "kill")
                 /\ e.name = "cacheReset" => h = <<"detect">> \o Kills(4)
                 /\ e.name = "start" =>
                        h = <<"detect">> \o Kills(4) \o <<"cacheReset">>
                 /\ ~devRestartInProgress' => started
                 /\ lastDevRestartTime' # lastDevRestartTime => started
                 /\ inv'[c].kind # "restart" => ~devRestartInProgress'
    ]_vars

(* A manual restart in its warm-up delay: every kill command, the cache    *)
(* reset and the start command were run, and the flag is still set.        *)
C23_Witness ==
    \E c \in Calls :
        /\ inv[c].kind = "restart"
        /\ provider = "plain"
        /\ inv[c].cmds = <<"detect">> \o Kills(4) \o <<"cacheReset", "start">>
        /\ devRestartInProgress

(* C24: when every command of the sandbox eventually returns or throws,    *)
(* every invocation of an operation that set its in-progress flag          *)
(* eventually completes, and the flag of the operation eventually becomes  *)
(* false again.                                                            *)
C24_FlagEventuallyCleared ==
    \A op \in OpInputs : operationInProgress[op] ~> ~operationInProgress[op]

(* The invocations that are inside a launch sequence of the dev server:    *)
(* a restart, or a 'dev' or 'start' operation.                             *)
Launching == InFlight("restart") \cup Running("dev") \cup Running("start")

(* C25: without force, two launch sequences of the dev server never        *)
(* overlap, whichever entry point each of them came through.               *)
C25_LaunchesNeverOverlap == Cardinality(Launching) <= 1

(* The records a pass over a line added to a list                          *)
Added(before, after) == SubSeq(after, Len(before) + 1, Len(after))

(* C29: a log line becomes at most one record, chosen by the first rule it *)
(* matches in the order import, syntax, type, build, warning, success; an  *)
(* import line that yields no package produces no record at all; a line    *)
(* that matches no rule is dropped.                                        *)
C29_ClassifyFirstRule ==
    Resolved("classify") =>
        LET line == lib.line
            before == lib.acc
            after == lib.result.value
            has(rule) == \E i \in 1..Len(line) : TokenRule(line[i]) = rule
            first == IF has("import") THEN "import"
                     ELSE IF has("syntax-error") THEN "syntax-error"
                     ELSE IF has("type-error") THEN "type-error"
                     ELSE IF has("build-error") THEN "build-error"
                     ELSE IF has("warning") THEN "warning"
                     ELSE IF has("success") THEN "success"
                     ELSE "none"
            pkg == extractPackageFromImportError(line, lib.framework)
            errs == Added(before.errors, after.errors)
            warns == Added(before.warnings, after.warnings)
            infos == Added(before.info, after.info)
            one(list, type) ==
                /\ Len(list) = 1 /\ list[1].type = type /\ list[1].message = line
        IN  /\ SubSeq(after.errors, 1, Len(before.errors)) = before.errors
            /\ Len(errs) + Len(warns) + Len(infos) <= 1
            /\ first = "import" =>
                  /\ warns = <<>> /\ infos = <<>>
                  /\ pkg = NoText => errs = <<>>
                  /\ (pkg # NoText /\ \A i \in 1..Len(before.errors) :
                                         before.errors[i].package # pkg) =>
                        Len(errs) = 1
                  /\ errs # <<>> =>
                        errs[1].type = "npm-missing" /\ errs[1].package = pkg
            /\ first \in {"syntax-error", "type-error", "build-error"} =>
                  one(errs, first)
            /\ first = "warning" => one(warns, "warning")
            /\ first = "success" => one(infos, "success")
            /\ first = "none" => after = before

(* A line that holds a warning word and a syntax error became one          *)
(* syntax-error record.                                                    *)
C29_Witness ==
    /\ Resolved("classify")
    /\ lib.line = <<"WARN", "SyntaxError:">>
    /\ lib.acc = NoRecords
    /\ Len(lib.result.value.errors) = 1
    /\ lib.result.value.errors[1].type = "syntax-error"
    /\ lib.result.value.warnings = <<>>

(* The invocation is at a command that writes the dev log                  *)
WritesDevLog(c) ==
    \/ AtCommand(c, "restart", RestartPlan(provider), "start")
    \/ AtCommand(c, "op", OperationPlan("dev", detected), "start")
    \/ AtCommand(c, "report", ReportPlan, "appendLog")

Declared(fw) == {LogFiles(fw)[i] : i \in 1..Len(LogFiles(fw))}

(* C30: whatever the framework of the project, the file that the start     *)
(* command of a restart or of a 'dev' operation redirects the server's     *)
(* output to, and that reportError appends to, is one of the log files the *)
(* framework declares (the files monitorLogs tails).                       *)
C30_DevLogIsDeclared ==
    \A c \in Calls : WritesDevLog(c) => DevLogPath(detected) \in Declared(detected)

(* The step in which monitor invocation c answers                          *)
MonitorAnswers(c) ==
    /\ AtCommand(c, "monitor", MonitorPlan(detected), "writeCache")
    /\ lastResp'.tag = "monitored"

ErrorKeys(s) == [i \in 1..Len(s) |-> ErrorKey(s[i])]
WarningKeys(s) == [i \in 1..Len(s) |-> WarningKey(s[i])]

(* The places of the first and of the last record of s with key k, keys[i] *)
(* being the key of s[i]                                                   *)
FirstAt(keys, k) ==
    CHOOSE i \in 1..Len(keys) : keys[i] = k /\ \A j \in 1..(i - 1) : keys[j] # k

LastAt(keys, k) ==
    CHOOSE i \in 1..Len(keys) : keys[i] = k /\ \A j \in (i + 1)..Len(keys) : keys[j] # k

(* C26 as stated: of the error records with one key (category and package  *)
(* or message) monitorLogs keeps the first occurrence, with its original   *)
(* fields and timestamp; likewise for warnings, keyed by message.          *)
C26_FirstOccurrenceKept ==
    [][\A c \in Calls :
          MonitorAnswers(c) =>
             /\ \A i \in 1..Len(lastResp'.errors) :
                    lastResp'.errors[i] =
                       inv[c].errors[FirstAt(ErrorKeys(inv[c].errors),
                                             ErrorKey(lastResp'.errors[i]))]
             /\ \A i \in 1..Len(lastResp'.warnings) :
                    lastResp'.warnings[i] =
                       inv[c].warnings[FirstAt(WarningKeys(inv[c].warnings),
                                               WarningKey(lastResp'.warnings[i]))]
    ]_vars

(* C26, amended: of the error records with one key monitorLogs keeps one,  *)
(* the last occurrence with its fields and timestamp, and the records kept *)
(* stand in the order of the first occurrences of their keys; likewise for *)
(* warnings, keyed by message.                                             *)
C26_LastOccurrenceKept ==
    [][\A c \in Calls :
          MonitorAnswers(c) =>
             LET kept == lastResp'.errors
                 keptW == lastResp'.warnings
                 keys == ErrorKeys(inv[c].errors)
                 keysW == WarningKeys(inv[c].warnings)
             IN  /\ \A i \in 1..Len(kept) :
                        kept[i] = inv[c].errors[LastAt(keys, ErrorKey(kept[i]))]
                 /\ \A i, j \in 1..Len(kept) :
                        i < j => /\ ErrorKey(kept[i]) # ErrorKey(kept[j])
                                 /\ FirstAt(keys, ErrorKey(kept[i]))
                                    < FirstAt(keys, ErrorKey(kept[j]))
                 /\ \A i \in 1..Len(keptW) :
                        keptW[i] = inv[c].warnings[LastAt(keysW, WarningKey(keptW[i]))]
                 /\ \A i, j \in 1..Len(keptW) :
                        i < j => WarningKey(keptW[i]) # WarningKey(keptW[j])
    ]_vars

(* monitorLogs has collected two error records with one key and different  *)
(* timestamps (the cached one and the one of the log line), and is about   *)
(* to answer.                                                              *)
C26_Witness ==
    \E c \in Calls :
        /\ AtCommand(c, "monitor", MonitorPlan(detected), "writeCache")
        /\ \E i, j \in 1..Len(inv[c].errors) :
              /\ i < j
              /\ ErrorKey(inv[c].errors[i]) = ErrorKey(inv[c].errors[j])
              /\ inv[c].errors[i].timestamp < inv[c].errors[j].timestamp

(* C27: when there are more deduplicated records than the limits,          *)
(* monitorLogs returns the most recent ones: the last 10 errors, the last  *)
(* 5 warnings, the last 3 info records; an error found in the log now is   *)
(* returned even when the cache already holds 10 errors.                   *)
C27_MostRecentKept ==
    [][\A c \in Calls :
          MonitorAnswers(c) =>
             LET collected == inv[c].errors
                 kept == lastResp'.errors
             IN  /\ Len(kept) <= MaxMonitorErrors
                 /\ Len(lastResp'.warnings) <= MaxMonitorWarnings
                 /\ lastResp'.info = LastN(inv[c].info, MaxMonitorInfo)
                 /\ collected # <<>> =>
                        \E i \in 1..Len(kept) :
                           ErrorKey(kept[i]) = ErrorKey(collected[Len(collected)])
    ]_vars

(* C28: after any sequence of monitorLogs, check-dev-errors, reportError,   *)
(* clearErrorCache and restart, the persisted cache of every framework     *)
(* holds at most 20 error records.                                         *)
C28_CacheAtMost20 ==
    \A f \in Frameworks : Len(errorCache[f].errors) <= MaxCachedErrors

(* The number of the declared names that are present                       *)
Present(declared, present) ==
    Cardinality({i \in 1..Len(declared) : declared[i] \in present})

(* The score of framework fw in the call, signal by signal                 *)
ExpectedScore(fw) ==
    LET m == lib.packageJson
    IN  (IF m.present
         THEN 30 * Present(dependencies(fw), m.deps)
              + 20 * Present(devDependencies(fw), m.deps)
              + (IF "dev" \in m.scripts /\ fw # "cra" THEN 15 ELSE 0)
              + (IF "build" \in m.scripts THEN 10 ELSE 0)
         ELSE 0)
        + (IF lib.fileExists.present
           THEN 25 * Present(configFiles(fw), lib.fileExists.found) ELSE 0)
        + (IF lib.runCommand.present /\ fw \in lib.runCommand.procs THEN 15 ELSE 0)

(* C31: the score of a framework is 30 per primary dependency present, 20  *)
(* per secondary dependency present, 15 for a dev script when its dev      *)
(* command contains 'dev', 10 for a build script, 25 per existing config   *)
(* file and 15 for its process; detect returns a framework of maximal      *)
(* score with confidence min(score, 100) / 100, which is 0 only for the    *)
(* fallback, and the profile registered under the framework returned.      *)
C31_ScoreAndConfidence ==
    Detected =>
        LET r == lib.result
            top == CHOOSE n \in {ExpectedScore(fw) : fw \in Frameworks} :
                      \A fw \in Frameworks : ExpectedScore(fw) <= n
        IN  /\ r.config = configName(r.framework)
            /\ r.confidence \in 0..100
            /\ IF top = 0
               THEN r.framework = "vite" /\ r.confidence = 0
               ELSE /\ ExpectedScore(r.framework) = top
                    /\ r.confidence = (IF top < 100 THEN top ELSE 100)
                    /\ r.confidence > 0
                    /\ Score(r.evidence) = top

(* A Next.js manifest with its three dependencies and both scripts scores  *)
(* 115 and is returned with confidence 1.                                  *)
C31_Witness ==
    /\ Detected
    /\ lib.packageJson.deps = {"next", "react", "react-dom"}
    /\ lib.packageJson.scripts = ScriptNames
    /\ ~lib.fileExists.present /\ ~lib.runCommand.present
    /\ ExpectedScore("nextjs") = 115
    /\ lib.result.framework = "nextjs" /\ lib.result.confidence = 100

TopScore == CHOOSE n \in {ExpectedScore(fw) : fw \in Frameworks} :
               \A fw \in Frameworks : ExpectedScore(fw) <= n

Tied == {fw \in Frameworks : ExpectedScore(fw) = TopScore}

(* C32: when two or more frameworks share the highest score and it is not  *)
(* 0, detect returns the one registered first (nextjs, vite, cra) with the *)
(* evidence of that framework.                                             *)
C32_TieFirstRegistered ==
    (Detected /\ TopScore > 0 /\ Cardinality(Tied) >= 2) =>
        LET first == IF "nextjs" \in Tied THEN "nextjs"
                     ELSE IF "vite" \in Tied THEN "vite" ELSE "cra"
        IN  /\ lib.result.framework = first
            /\ lib.result.evidence =
                  Evidence(first, lib.packageJson, lib.fileExists, lib.runCommand)

(* vite and cra tie ahead of nextjs (a config file each), vite is returned *)
C32_Witness ==
    /\ Detected
    /\ TopScore > 0
    /\ Tied = {"vite", "cra"}
    /\ lib.result.framework = "vite"

(* The capability with every throw replaced by the answer 'does not exist' *)
(* / an unsuccessful command                                               *)
Quiet(fileExists) ==
    [fileExists EXCEPT !.found = @ \ fileExists.throws, !.throws = {}]

QuietCommand(runCommand) ==
    [runCommand EXCEPT !.procs = @ \ runCommand.throws, !.throws = {}]

(* C33: a file check or a process listing that throws adds nothing to the  *)
(* score and no evidence, and the remaining config files, signals and      *)
(* frameworks are still scored: the result is the result of the call in    *)
(* which the failing checks answered 'does not exist' / 'no process'.       *)
C33_FailingCheckIsNeutral ==
    Detected =>
        /\ lib.result = detectFramework(lib.packageJson, Quiet(lib.fileExists),
                                        QuietCommand(lib.runCommand))
        /\ \A i \in 1..Len(lib.result.evidence) :
              LET sig == lib.result.evidence[i]
              IN  /\ sig.kind = "config file" => sig.what \notin lib.fileExists.throws
                  /\ sig.kind = "process" => sig.what \notin lib.runCommand.throws
        /\ \A i \in 1..Len(configFiles(lib.result.framework)) :
              LET file == configFiles(lib.result.framework)[i]
              IN  (lib.result.confidence > 0
                   /\ file \in lib.fileExists.found \ lib.fileExists.throws) =>
                     \E k \in 1..Len(lib.result.evidence) :
                        lib.result.evidence[k] = Signal("config file", file)

(* The check of next.config.js throws, next.config.ts exists and is        *)
(* counted: nextjs is returned on that file alone.                         *)
C33_Witness ==
    /\ Detected
    /\ ~lib.packageJson.present
    /\ lib.fileExists.throws = {"next.config.js"}
    /\ lib.fileExists.found = {"next.config.js", "next.config.ts"}
    /\ lib.runCommand.throws = Frameworks
    /\ lib.result.framework = "nextjs"
    /\ lib.result.evidence = <<Signal("config file", "next.config.ts")>>

(* C34: detectPackageManager takes a file check that fails as 'lock file   *)
(* absent': the call always ends with a package manager, the one of the    *)
(* first lock file whose check answers true and npm when none does, and    *)
(* never with the exception of the callback.                               *)
C34_FailingCheckIsAbsent ==
    (lib.fn = "detectPackageManager" /\ lib.result # Pending) =>
        /\ lib.result # Thrown
        /\ lib.result = Returned(detectPackageManager(lib.fileExists \ lib.throws))

(* The persisted cache of the detected framework holds the error of req    *)
Persisted(doc, req) ==
    \E i \in 1..Len(doc.errors) :
        /\ doc.errors[i].message = req.error
        /\ doc.errors[i].file = ErrorObj(req, 0).file
        /\ doc.errors[i].line = req.line

(* C35: no report is lost when calls interleave: when a reportError call   *)
(* completes, every command of it having succeeded, after another one      *)
(* that reported a different error with every command succeeding, and no   *)
(* call is left in flight, the persisted cache holds both errors (fewer    *)
(* than twenty errors are cached, so that none is pruned).                 *)
C35_NoReportLost ==
    [][\A c \in Calls :
          (/\ ReportStep(c, "ok") /\ Responds /\ ~inv[c].faults
           /\ reported.made /\ ~reported.faults
           /\ ~SameError(inv[c].req, reported.req)
           /\ \A d \in Calls : inv'[d].kind = "idle")
            => /\ Persisted(errorCache'[detected], inv[c].req)
               /\ Persisted(errorCache'[detected], reported.req)]_vars

(* C36: a runOperation call that ends through the operation switch (its    *)
(* answer is the result, status 200) records the time of the operation     *)
(* and clears its flag, whatever the command did: a command that threw an  *)
(* Error gives success = false with the error, an unknown operation name   *)
(* gives success = false with 'Unknown operation', and in every case an    *)
(* operation that is not read-only is in its cooldown right after.         *)
C36_SwitchEndRecordsTime ==
    [][\A c \in Calls, o \in CmdOutcomes :
          (OperationStep(c, o) /\ Responds /\ lastResp'.tag = "result") =>
             LET op == inv[c].op IN
             /\ lastResp'.status = 200
             /\ lastOperationTime'[op] = now
             /\ ~operationInProgress'[op]
             /\ (o = "throwError" /\ ~OperationPlan(op, detected)[inv[c].pc].tol) =>
                    (~lastResp'.success /\ lastResp'.error = "exception")
             /\ op = "unknown" =>
                    (~lastResp'.success /\ lastResp'.error = "unknown-operation")
             /\ op \notin ReadOnlyOps =>
                    OperationGate(op, FALSE, operationInProgress'[op],
                                  lastOperationTime'[op], now) = "cooldown"]_vars

(* A build whose command threw: answered with the failure as data, the     *)
(* time recorded and the flag cleared.                                     *)
C36_Witness ==
    /\ lastResp.kind = "op" /\ lastResp.op = "build" /\ lastResp.tag = "result"
    /\ ~lastResp.success /\ lastResp.error = "exception"
    /\ lastOperationTime["build"] = now
    /\ ~operationInProgress["build"]
    /\ \A c \in Calls : inv[c].kind = "idle"

(* The rules whose lines monitorLogs turns into error records              *)
ErrorRules == {"syntax-error", "type-error", "build-error"}

(* Error record e is what a line of the dev log gives                      *)
FromLog(e) ==
    \E i \in 1..Len(devLog) :
        LET line == devLog[i]
            pkg == extractPackageFromImportError(line, detected)
        IN  \/ LineRule(line) \in ErrorRules /\ e.type = LineRule(line) /\ e.message = line
            \/ /\ LineRule(line) = "import" /\ pkg # NoText
               /\ e.type = "npm-missing" /\ e.package = pkg

C38_ReportIsWhatIsCached ==
    [][\A c \in Calls :
          MonitorAnswers(c) =>
             /\ Len(lastResp'.errors) <= MaxMonitorErrors
             /\ Len(lastResp'.warnings) <= MaxMonitorWarnings
             /\ Len(lastResp'.info) <= MaxMonitorInfo
             /\ lastResp'.totalErrors = Len(lastResp'.errors)
             /\ MonitorStep(c, "ok") =>
                    /\ errorCache'[detected].exists
                    /\ errorCache'[detected].errors = lastResp'.errors
                    /\ errorCache'[detected].warnings = lastResp'.warnings]_vars

(* C39: the remaining cooldown that a throttled call reports is a whole    *)
(* number of seconds from 1 to the window: 1..5 for the restart, 1..3 for  *)
(* an operation; and a restart call made while no restart has completed    *)
(* since the process started is never answered with the cooldown.          *)
C39_RemainingWithinWindow ==
    [][/\ lastResp'.tag = "cooldown" =>
             /\ lastResp'.kind \in {"restart", "op"}
             /\ lastResp'.kind = "restart" =>
                    lastResp'.remaining \in 1..(RESTART_COOLDOWN_MS \div 1000)
             /\ lastResp'.kind = "op" =>
                    lastResp'.remaining \in 1..(OPERATION_COOLDOWN_MS \div 1000)
       /\ \A c \in Calls :
             (RestartSession(c) /\ lastDevRestartTime = 0) => lastResp'.tag # "cooldown"
      ]_vars

(* A build asked for again 2.5 seconds after the last one ended: half a    *)
(* second of the window is left and 1 second is reported.                  *)
C39_Witness ==
    /\ lastResp.kind = "op" /\ lastResp.op = "build" /\ lastResp.tag = "cooldown"
    /\ now - lastOperationTime["build"] = TickMs
    /\ lastResp.remaining = 1

====
